---------------------------- MODULE Spec2Model ----------------------------
(***************************************************************************)
(* A model of ghscope: the analysis engine (src/src/ghscope/core/          *)
(* analysis.py and core/models.py), the response cache (core/cache.py),    *)
(* the GraphQL client (core/github.py) and the fetching of the commands    *)
(* (commands/*.py).                                                        *)
(*                                                                         *)
(* The analysis functions are pure: each is an operator computed the way   *)
(* the code computes it, and each has a specification whose initial states *)
(* draw the function's arguments from bounded sets and whose action calls  *)
(* the function and stores what it returns.  The cache, the fetch helpers  *)
(* and the report computations have specifications whose actions are the   *)
(* calls and invocations that share one cache table.                       *)
(*                                                                         *)
(* Conventions                                                             *)
(*  - Optional values (datetime | None, str | None, float | None) are      *)
(*    sequences of length at most one: <<>> is None, <<v>> is v.           *)
(*  - A datetime is an integer number of minutes since some epoch, so      *)
(*    (a - b).total_seconds() is (a - b) * 60.                             *)
(*  - Python floats are modelled by exact rationals [n, d] (d > 0); the    *)
(*    rounding of IEEE doubles is not modelled.                            *)
(*  - A string is a sequence of characters: Len, SubSeq and \o apply to     *)
(*    it.  Only ASCII letters have another case, and whitespace is the     *)
(*    ASCII whitespace a TLA+ string can hold.                             *)
(***************************************************************************)
EXTENDS Integers, Sequences, FiniteSets, TLC

VARIABLES
    pc,      \* "call": the arguments are chosen, "done": the function returned,
             \* "idle": between two invocations
    fn,      \* the name of the function this behaviour calls
    args,    \* the arguments of the call, a record
    result,  \* what the call returned (<<>> before it returns)
    cache,   \* the rows of the SQLite table cache of ~/.ghscope/cache.db
    clock,   \* time.time(), in seconds
    hist     \* history variable: the cache.put and cache.clear calls so far

vars == <<pc, fn, args, result, cache, clock, hist>>

\* The table without rows
EmptyStore == <<>>

\* The analysis functions neither read nor write the cache or the clock
FreshCache == cache = EmptyStore /\ clock = 0 /\ hist = <<>>

----------------------------------------------------------------------------
(* Generic helpers *)

None == <<>>
Some(v) == <<v>>
IsNone(o) == o = <<>>
Val(o) == o[1]

Min2(a, b) == IF a <= b THEN a ELSE b
Max2(a, b) == IF a >= b THEN a ELSE b

\* len([x for x in s if Test(x)])
CountIf(s, Test(_)) == Len(SelectSeq(s, Test))

\* Exact rationals standing for Python floats
Rat(n, d) == [n |-> n, d |-> d]
RatInt(i) == Rat(i, 1)
RatAdd(a, b) == Rat(a.n * b.d + b.n * a.d, a.d * b.d)
RatSub(a, b) == Rat(a.n * b.d - b.n * a.d, a.d * b.d)
RatMulInt(a, i) == Rat(a.n * i, a.d)
RatLe(a, b) == a.n * b.d <= b.n * a.d
RatLt(a, b) == a.n * b.d < b.n * a.d
RatEq(a, b) == a.n * b.d = b.n * a.d
\* int(x): truncation toward zero
RatTrunc(a) == IF a.n >= 0 THEN a.n \div a.d ELSE -((-a.n) \div a.d)
\* f"{x:.0%}": x * 100 rounded to the nearest integer, ties to even
RatPercent(a) ==
    LET q == (a.n * 100) \div a.d
        r2 == 2 * ((a.n * 100) % a.d)
    IN  IF r2 < a.d THEN q
        ELSE IF r2 > a.d THEN q + 1
        ELSE IF q % 2 = 0 THEN q ELSE q + 1

----------------------------------------------------------------------------
(* core/models.py: PRSummary.size *)

size(pr) ==
    LET total == pr.additions + pr.deletions
    IN  IF total <= 10 THEN "XS"
        ELSE IF total <= 50 THEN "S"
        ELSE IF total <= 200 THEN "M"
        ELSE IF total <= 500 THEN "L"
        ELSE "XL"

----------------------------------------------------------------------------
(* compute_merge_probability (analysis.py 187-247) *)

\* size_bonus.get(target.size, 0)
size_bonus(sz) ==
    CASE sz = "XS" -> 8
      [] sz = "S" -> 5
      [] sz = "M" -> 0
      [] sz = "L" -> -5
      [] sz = "XL" -> -10
      [] OTHER -> 0

\* A faulty ClampScore: the score is returned as truncated, without the clamp
ClampScoreNoClamp(s) == s

\* max(0, min(100, int(score))), given int(score)
ClampScore(s) == Max2(0, Min2(100, s))

\* A faulty author_bonus: the bonus is not capped
author_bonus_uncapped(count) == count * 3

\* min(len(author_merged) * 3, 15)
author_bonus(count) == Min2(count * 3, 15)

\* min(len(author_closed) * 2, 10)
author_penalty(count) == Min2(count * 2, 10)

\* A faulty has_category_history: two PRs of the category are enough
has_category_history_from_two(cat_total) == cat_total >= 2

\* cat_total >= 3
has_category_history(cat_total) == cat_total >= 3

\* A faulty age_band: a PR open for exactly 30 days is in the "old" band
age_band_old_from_30(age_days) ==
    IF RatLt(RatInt(60), age_days) THEN "stale"
    ELSE IF RatLe(RatInt(30), age_days) THEN "old"
    ELSE IF RatLt(age_days, RatInt(7)) THEN "recent"
    ELSE "none"

\* The branch of the if/elif chain on age_days
age_band(age_days) ==
    IF RatLt(RatInt(60), age_days) THEN "stale"
    ELSE IF RatLt(RatInt(30), age_days) THEN "old"
    ELSE IF RatLt(age_days, RatInt(7)) THEN "recent"
    ELSE "none"

compute_merge_probability(target, merged, closed) ==
    LET total == Len(merged) + Len(closed)
        base_rate == Rat(Len(merged), total)
        \* 1. base merge rate
        score1 == IF total > 0
                  THEN RatAdd(RatInt(50),
                              RatMulInt(RatSub(base_rate, Rat(1, 2)), 30))
                  ELSE RatInt(50)
        factors1 == IF total > 0
                    THEN <<[kind |-> "base_rate", pct |-> RatPercent(base_rate)]>>
                    ELSE <<>>
        \* 2. category-specific rate
        SameCat(p) == p.category = target.category
        cat_merged == CountIf(merged, SameCat)
        cat_closed == CountIf(closed, SameCat)
        cat_total == cat_merged + cat_closed
        cat_rate == Rat(cat_merged, cat_total)
        score2 == IF has_category_history(cat_total)
                  THEN RatAdd(score1, RatMulInt(RatSub(cat_rate, Rat(1, 2)), 15))
                  ELSE score1
        factors2 == IF has_category_history(cat_total)
                    THEN Append(factors1, [kind |-> "category_rate",
                                           category |-> target.category,
                                           pct |-> RatPercent(cat_rate)])
                    ELSE factors1
        \* 3. author history
        SameAuthor(p) == p.author = target.author
        author_merged == CountIf(merged, SameAuthor)
        author_closed == CountIf(closed, SameAuthor)
        score3a == IF author_merged > 0
                   THEN RatAdd(score2, RatInt(author_bonus(author_merged)))
                   ELSE score2
        factors3 == IF author_merged > 0
                    THEN Append(factors2, [kind |-> "author_merged",
                                           count |-> author_merged])
                    ELSE factors2
        score3 == IF author_closed > 0
                  THEN RatSub(score3a, RatInt(author_penalty(author_closed)))
                  ELSE score3a
        \* 4. size factor
        score4 == RatAdd(score3, RatInt(size_bonus(size(target))))
        factors4 == Append(factors3, [kind |-> "size", size |-> size(target),
                                      additions |-> target.additions,
                                      deletions |-> target.deletions])
        \* 5. reviews
        score5 == IF target.review_count > 0
                  THEN RatAdd(score4, RatInt(10))
                  ELSE RatSub(score4, RatInt(5))
        factors5 == IF target.review_count > 0
                    THEN Append(factors4, [kind |-> "reviews",
                                           count |-> target.review_count])
                    ELSE Append(factors4, [kind |-> "no_reviews"])
        \* 6. age penalty
        age_days == Rat(target.age_hours, 24)
        band == age_band(age_days)
        score6 == IF band = "stale" THEN RatSub(score5, RatInt(15))
                  ELSE IF band = "old" THEN RatSub(score5, RatInt(8))
                  ELSE score5
        factors6 == IF band = "none" THEN factors5
                    ELSE Append(factors5, [kind |-> band,
                                           age_hours |-> target.age_hours])
    IN  [score |-> ClampScore(RatTrunc(score6)), factors |-> factors6]

----------------------------------------------------------------------------
(* Bounds and input sets of the merge-probability specification *)

\* The historical lists together hold at most MaxHist PRs
MaxHist == 4

Authors == {"alice", "bob"}
ProbCategories == {"fix", "other"}

\* What compute_merge_probability reads of a historical PR
HistPRs == [author : Authors, category : ProbCategories]

\* The open PR under assessment: one diff size per size bucket (at the bucket's
\* upper edge, and one past the last), with and without reviews, and an age
\* on either side of each band edge of 7, 30 and 60 days.
ProbTargets ==
    [author : {"alice"}, category : ProbCategories,
     additions : {10, 50, 200, 500, 501}, deletions : {0},
     review_count : {0, 2},
     age_hours : {24, 168, 720, 721, 1440, 1441}]

\* Every target with every pair of lists that together hold at most MaxHist PRs
ProbArgs ==
    UNION {[target : ProbTargets,
            merged : [1..k -> HistPRs],
            closed : [1..j -> HistPRs]] :
           <<k, j>> \in {kj \in (0..MaxHist) \X (0..MaxHist) : kj[1] + kj[2] <= MaxHist}}

InitProb ==
    /\ pc = "call"
    /\ fn = "compute_merge_probability"
    /\ args \in ProbArgs
    /\ result = <<>>
    /\ FreshCache

CallMergeProbability ==
    /\ pc = "call"
    /\ fn = "compute_merge_probability"
    /\ result' = compute_merge_probability(args.target, args.merged, args.closed)
    /\ pc' = "done"
    /\ UNCHANGED <<fn, args, cache, clock, hist>>

NextProb == CallMergeProbability

SpecProb == InitProb /\ [][NextProb]_vars

\* C1: for every target PR and every pair of historical lists (both empty
\* included), compute_merge_probability returns an integer score with
\* 0 <= score <= 100.
C1_ScoreInRange ==
    (pc = "done" /\ fn = "compute_merge_probability") =>
        /\ result.score \in Int
        /\ 0 <= result.score
        /\ result.score <= 100

\* A call whose unclamped score is below 0: three closed PRs of the author
\* and of the target's category, an XL target without reviews, open > 60 days.
C1_Witness ==
    /\ pc = "done"
    /\ fn = "compute_merge_probability"
    /\ Len(args.closed) = 3
    /\ \A i \in 1..3 : args.closed[i].author = args.target.author
                       /\ args.closed[i].category = args.target.category
    /\ size(args.target) = "XL"
    /\ args.target.review_count = 0
    /\ args.target.age_hours > 60 * 24
    /\ result.score = 0

----------------------------------------------------------------------------
(* detect_batch_merges (analysis.py 106-142) *)

\* The default of window_minutes
DefaultWindowMinutes == 30

\* p.merged_at and p.merged_by
HasMergeInfo(p) == ~IsNone(p.merged_at) /\ ~IsNone(p.merged_by)

\* (a - b).total_seconds() of two datetimes
total_seconds(a, b) == (a - b) * 60

\* list.sort(key=lambda p: p.merged_at) is stable: p goes behind every PR
\* already placed whose merged_at is not later than its own
RECURSIVE InsertByMergedAt(_, _)
InsertByMergedAt(sorted, p) ==
    IF sorted = <<>> THEN <<p>>
    ELSE IF Val(Head(sorted).merged_at) <= Val(p.merged_at)
         THEN <<Head(sorted)>> \o InsertByMergedAt(Tail(sorted), p)
         ELSE <<p>> \o sorted

RECURSIVE SortByMergedAtFrom(_, _)
SortByMergedAtFrom(sorted, rest) ==
    IF rest = <<>> THEN sorted
    ELSE SortByMergedAtFrom(InsertByMergedAt(sorted, Head(rest)), Tail(rest))

\* A faulty SortedMerged: the list is filtered, and left in its input order
SortedMergedUnsorted(prs) == SelectSeq(prs, HasMergeInfo)

\* merged = [p for p in prs if p.merged_at and p.merged_by]; merged.sort(...)
SortedMerged(prs) == SortByMergedAtFrom(<<>>, SelectSeq(prs, HasMergeInfo))

\* A faulty IsBatch: a run of two already counts as a batch
IsBatchOfTwo(current_group) == Len(current_group) >= 2

\* len(current_group) >= 3
IsBatch(current_group) == Len(current_group) >= 3

\* A faulty RunPrev: the gap is measured from the first PR of the run
RunPrevFirst(current_group) == current_group[1]

\* prev = current_group[-1]
RunPrev(current_group) == current_group[Len(current_group)]

BatchClusterOf(current_group) ==
    [merger |-> Val(current_group[1].merged_by),
     count |-> Len(current_group),
     start_time |-> Val(current_group[1].merged_at),
     end_time |-> Val(current_group[Len(current_group)].merged_at),
     prs |-> [i \in 1..Len(current_group) |-> current_group[i].number]]

\* if len(current_group) >= 3: clusters.append(BatchCluster(...))
EmitIfBatch(clusters, current_group) ==
    IF IsBatch(current_group)
    THEN Append(clusters, BatchClusterOf(current_group))
    ELSE clusters

\* The loop over merged[1:], then the flush of the last run
RECURSIVE ScanMerges(_, _, _, _)
ScanMerges(rest, current_group, clusters, window_minutes) ==
    IF rest = <<>> THEN EmitIfBatch(clusters, current_group)
    ELSE LET pr == Head(rest)
             prev == RunPrev(current_group)
             same_merger == pr.merged_by = prev.merged_by
             within_window ==
                 total_seconds(Val(pr.merged_at), Val(prev.merged_at))
                     < window_minutes * 60
         IN  IF same_merger /\ within_window
             THEN ScanMerges(Tail(rest), Append(current_group, pr), clusters,
                             window_minutes)
             ELSE ScanMerges(Tail(rest), <<pr>>,
                             EmitIfBatch(clusters, current_group), window_minutes)

detect_batch_merges(prs, window_minutes) ==
    LET merged == SortedMerged(prs)
    IN  IF merged = <<>> THEN <<>>
        ELSE ScanMerges(Tail(merged), <<merged[1]>>, <<>>, window_minutes)

----------------------------------------------------------------------------
(* Bounds and input sets of the batch-merge specification *)

\* The longest input list, and the latest merge minute, of the general inputs
MaxBatchPRs == 4
MaxTime == 3

Mergers == {"alice", "bob"}
BatchWindows == {1, 2}

\* What detect_batch_merges reads of a PR, less its number: merged at any
\* minute by either merger, or lacking merged_at, or lacking merged_by
BatchPRFields ==
    [merged_at : {Some(t) : t \in 0..MaxTime}, merged_by : {Some(m) : m \in Mergers}]
    \cup {[merged_at |-> None, merged_by |-> Some("alice")],
          [merged_at |-> Some(0), merged_by |-> None]}

\* PR numbers are unique: a PR's number is its place in the input list
Numbered(fields) ==
    [i \in 1..Len(fields) |->
        [number |-> i, merged_at |-> fields[i].merged_at,
         merged_by |-> fields[i].merged_by]]

\* Five merges by one merger, one minute apart, from minute t0 on
FiveInARow(merger, t0) ==
    [i \in 1..5 |-> [number |-> i, merged_at |-> Some(t0 + i - 1),
                     merged_by |-> Some(merger)]]

\* A list of at most MaxBatchPRs PRs under a window of BatchWindows
IsGeneralBatchArgs(a) ==
    \E k \in 0..MaxBatchPRs, w \in BatchWindows :
        \E f \in [1..k -> BatchPRFields] :
            a = [prs |-> Numbered(f), window_minutes |-> w]

\* Five merges in a row under the default window
IsFiveInARowArgs(a) ==
    \E m \in Mergers, t0 \in 0..MaxTime :
        a = [prs |-> FiveInARow(m, t0), window_minutes |-> DefaultWindowMinutes]

\* Six merges, enough for two clusters: each at the first, the second or the
\* last minute by either merger, in any input order
IsSixMergesArgs(a) ==
    \E w \in BatchWindows :
        \E f \in [1..6 -> [merged_at : {Some(t) : t \in {0, 1, MaxTime}},
                           merged_by : {Some(m) : m \in Mergers}]] :
            a = [prs |-> Numbered(f), window_minutes |-> w]

InitBatch ==
    /\ pc = "call"
    /\ fn = "detect_batch_merges"
    /\ IsGeneralBatchArgs(args) \/ IsFiveInARowArgs(args) \/ IsSixMergesArgs(args)
    /\ result = <<>>
    /\ FreshCache

CallDetectBatchMerges ==
    /\ pc = "call"
    /\ fn = "detect_batch_merges"
    /\ result' = detect_batch_merges(args.prs, args.window_minutes)
    /\ pc' = "done"
    /\ UNCHANGED <<fn, args, cache, clock, hist>>

NextBatch == CallDetectBatchMerges

SpecBatch == InitBatch /\ [][NextBatch]_vars

BatchDone == pc = "done" /\ fn = "detect_batch_merges"

IsFiveInARow == IsFiveInARowArgs(args)

\* C2: detect_batch_merges never emits a cluster with fewer than 3 members,
\* and for 5 merges by the same merger spaced 1 minute apart with
\* window_minutes = 30 it emits exactly one cluster, holding all 5.
C2_ClusterSize ==
    BatchDone =>
        /\ \A i \in 1..Len(result) :
               result[i].count >= 3 /\ Len(result[i].prs) >= 3
        /\ IsFiveInARow =>
               /\ Len(result) = 1
               /\ result[1].count = 5
               /\ result[1].prs = <<1, 2, 3, 4, 5>>

\* The five-in-a-row call has returned its one cluster
C2_Witness ==
    BatchDone /\ IsFiveInARow /\ Len(result) = 1 /\ result[1].count = 5

\* The run sorted[i..j] is what cluster c reports
IsRunOf(c, sorted, i, j, window_minutes) ==
    /\ i <= j
    /\ c.prs = [k \in 1..(j - i + 1) |-> sorted[i + k - 1].number]
    /\ \A k \in i..j : sorted[k].merged_by = Some(c.merger)
    /\ \A k \in i..(j - 1) :
           (Val(sorted[k + 1].merged_at) - Val(sorted[k].merged_at)) * 60
               < window_minutes * 60
    /\ \/ i = 1
       \/ sorted[i - 1].merged_by # Some(c.merger)
       \/ (Val(sorted[i].merged_at) - Val(sorted[i - 1].merged_at)) * 60
              >= window_minutes * 60
    /\ \/ j = Len(sorted)
       \/ sorted[j + 1].merged_by # Some(c.merger)
       \/ (Val(sorted[j + 1].merged_at) - Val(sorted[j].merged_at)) * 60
              >= window_minutes * 60

\* C3: every emitted cluster is a maximal contiguous run of the
\* merge-time-sorted list of the PRs that have merged_at and merged_by: its
\* members are all merged by cluster.merger, consecutive members are less
\* than window_minutes apart (measured from the run's most recent member), and
\* the PR just before and the PR just after the run has another merger or is
\* at least the window away.
C3_MaximalRun ==
    BatchDone =>
        LET sorted == SortedMerged(args.prs)
        IN  \A n \in 1..Len(result) :
                \E i \in 1..Len(sorted), j \in 1..Len(sorted) :
                    IsRunOf(result[n], sorted, i, j, args.window_minutes)

\* A cluster whose members are each less than the window after the one
\* before while the whole run spans at least the window, and which is not the
\* end of the sorted list: the PR after it ended the run
C3_Witness ==
    /\ BatchDone
    /\ Len(result) = 1
    /\ result[1].end_time - result[1].start_time >= args.window_minutes
    /\ LET sorted == SortedMerged(args.prs)
       IN  /\ Len(sorted) = 4
           /\ result[1].prs = <<sorted[1].number, sorted[2].number, sorted[3].number>>
           /\ Val(sorted[4].merged_at) >= result[1].end_time

----------------------------------------------------------------------------
(* compute_merge_times (analysis.py 92-103), with statistics.median and
   statistics.quantiles(n=4, method='exclusive') of the standard library *)

\* sorted(data): insertion of x behind every element not greater than it
RECURSIVE InsertSorted(_, _)
InsertSorted(sorted, x) ==
    IF sorted = <<>> THEN <<x>>
    ELSE IF Head(sorted) <= x
         THEN <<Head(sorted)>> \o InsertSorted(Tail(sorted), x)
         ELSE <<x>> \o sorted

RECURSIVE SortedFrom(_, _)
SortedFrom(sorted, rest) ==
    IF rest = <<>> THEN sorted
    ELSE SortedFrom(InsertSorted(sorted, Head(rest)), Tail(rest))

Sorted(data) == SortedFrom(<<>>, data)

\* min(times), max(times): a scan of the list
RECURSIVE ListMin(_)
ListMin(data) ==
    IF Len(data) = 1 THEN data[1] ELSE Min2(Head(data), ListMin(Tail(data)))

RECURSIVE ListMax(_)
ListMax(data) ==
    IF Len(data) = 1 THEN data[1] ELSE Max2(Head(data), ListMax(Tail(data)))

\* statistics.median of a non-empty list (0-based data[n // 2] is data[n \div 2 + 1])
median(data) ==
    LET sd == Sorted(data)
        n == Len(sd)
    IN  IF n % 2 = 1 THEN RatInt(sd[n \div 2 + 1])
        ELSE Rat(sd[n \div 2] + sd[n \div 2 + 1], 2)

\* The i-th of the n - 1 cut points of statistics.quantiles(data, n=n),
\* method 'exclusive', for at least two data points
QuantileCut(data, n, i) ==
    LET sd == Sorted(data)
        ld == Len(sd)
        m == ld + 1
        j0 == (i * m) \div n
        j == IF j0 < 1 THEN 1 ELSE IF j0 > ld - 1 THEN ld - 1 ELSE j0
        delta == i * m - j * n
    IN  \* (data[j - 1] * (n - delta) + data[j] * delta) / n, 0-based
        Rat(sd[j] * (n - delta) + sd[j + 1] * delta, n)

quantiles(data, n) == [i \in 1..(n - 1) |-> QuantileCut(data, n, i)]

\* times = [pr.time_to_merge_hours for pr in prs if ... is not None]
RECURSIVE DefinedMergeTimes(_)
DefinedMergeTimes(prs) ==
    IF prs = <<>> THEN <<>>
    ELSE IF IsNone(Head(prs).time_to_merge_hours)
         THEN DefinedMergeTimes(Tail(prs))
         ELSE <<Val(Head(prs).time_to_merge_hours)>> \o DefinedMergeTimes(Tail(prs))

\* A faulty TooFewForQuartiles: quartiles are interpolated from two values on
TooFewForQuartilesBelowTwo(times) == Len(times) < 2

\* len(times) < 4
TooFewForQuartiles(times) == Len(times) < 4

\* A faulty Quartiles: the two quartiles change places
QuartilesSwapped(med, q) == [median |-> med, p25 |-> q[3], p75 |-> q[1]]

\* return med, q[0], q[2]
Quartiles(med, q) == [median |-> med, p25 |-> q[1], p75 |-> q[3]]

compute_merge_times(prs) ==
    LET times == DefinedMergeTimes(prs)
    IN  IF times = <<>>
        THEN [median |-> RatInt(0), p25 |-> RatInt(0), p75 |-> RatInt(0)]
        ELSE IF Len(times) = 1
        THEN [median |-> RatInt(times[1]), p25 |-> RatInt(times[1]),
              p75 |-> RatInt(times[1])]
        ELSE IF TooFewForQuartiles(times)
        THEN [median |-> median(times), p25 |-> RatInt(ListMin(times)),
              p75 |-> RatInt(ListMax(times))]
        ELSE Quartiles(median(times), quantiles(times, 4))

----------------------------------------------------------------------------
(* Bounds and input sets of the merge-time specification *)

\* The longest PR list, and the largest time to merge (whole hours)
MaxTimesPRs == 5
MaxHours == 3

\* What compute_merge_times reads of a PR
TimesPRs ==
    [time_to_merge_hours : {None} \cup {Some(h) : h \in 0..MaxHours}]

InitTimes ==
    /\ pc = "call"
    /\ fn = "compute_merge_times"
    /\ \E k \in 0..MaxTimesPRs : \E prs \in [1..k -> TimesPRs] : args = [prs |-> prs]
    /\ result = <<>>
    /\ FreshCache

CallMergeTimes ==
    /\ pc = "call"
    /\ fn = "compute_merge_times"
    /\ result' = compute_merge_times(args.prs)
    /\ pc' = "done"
    /\ UNCHANGED <<fn, args, cache, clock, hist>>

NextTimes == CallMergeTimes

SpecTimes == InitTimes /\ [][NextTimes]_vars

TimesDone == pc = "done" /\ fn = "compute_merge_times"

\* The defined times of the call's PRs, as a set of places in the list
DefinedAt == {i \in 1..Len(args.prs) : ~IsNone(args.prs[i].time_to_merge_hours)}
TimeAt(i) == Val(args.prs[i].time_to_merge_hours)

\* C4: compute_merge_times returns (median, p25, p75) with p25 <= p75, and
\* with p25 <= median <= p75 whenever at least 4 PRs have a defined
\* time_to_merge_hours.
C4_QuartileOrder ==
    TimesDone =>
        /\ RatLe(result.p25, result.p75)
        /\ Cardinality(DefinedAt) >= 4 =>
               /\ RatLe(result.p25, result.median)
               /\ RatLe(result.median, result.p75)

\* Five defined times, not all equal, with interpolated quartiles strictly
\* either side of the median
C4_Witness ==
    /\ TimesDone
    /\ Cardinality(DefinedAt) = 5
    /\ RatLt(result.p25, result.median)
    /\ RatLt(result.median, result.p75)
    /\ result.p25.n % result.p25.d # 0

\* v is a median of the defined times: at least half of them are <= v and at
\* least half are >= v (v in twice the hours, to stay in the integers)
IsMedianTwice(v2) ==
    /\ 2 * Cardinality({i \in DefinedAt : 2 * TimeAt(i) <= v2}) >= Cardinality(DefinedAt)
    /\ 2 * Cardinality({i \in DefinedAt : 2 * TimeAt(i) >= v2}) >= Cardinality(DefinedAt)

\* C5: PRs without a time_to_merge_hours are ignored; with no defined value
\* the result is (0, 0, 0), with exactly one value v it is (v, v, v), and with
\* 2 or 3 values it is (median, min, max) of those values.
C5_Degenerate ==
    TimesDone =>
        LET n == Cardinality(DefinedAt)
            zero == RatInt(0)
        IN  /\ n = 0 => /\ RatEq(result.median, zero)
                        /\ RatEq(result.p25, zero)
                        /\ RatEq(result.p75, zero)
            /\ n = 1 => \A i \in DefinedAt :
                            /\ RatEq(result.median, RatInt(TimeAt(i)))
                            /\ RatEq(result.p25, RatInt(TimeAt(i)))
                            /\ RatEq(result.p75, RatInt(TimeAt(i)))
            /\ n \in {2, 3} =>
                   /\ \E i \in DefinedAt :
                          /\ RatEq(result.p25, RatInt(TimeAt(i)))
                          /\ \A k \in DefinedAt : TimeAt(i) <= TimeAt(k)
                   /\ \E i \in DefinedAt :
                          /\ RatEq(result.p75, RatInt(TimeAt(i)))
                          /\ \A k \in DefinedAt : TimeAt(i) >= TimeAt(k)
                   /\ \E v2 \in 0..(2 * MaxHours) :
                          /\ RatEq(result.median, Rat(v2, 2))
                          /\ IsMedianTwice(v2)
                          /\ n = 2 => \E i, k \in DefinedAt :
                                          i # k /\ v2 = TimeAt(i) + TimeAt(k)

\* Two distinct defined times among PRs some of which have none
C5_Witness ==
    /\ TimesDone
    /\ Cardinality(DefinedAt) = 2
    /\ Cardinality(DefinedAt) < Len(args.prs)
    /\ RatLt(result.p25, result.median)
    /\ RatLt(result.median, result.p75)

----------------------------------------------------------------------------
(* compute_bus_factor (analysis.py 340-360) *)

\* The default of days, and the length of the returned top list
DefaultDays == 90
TopMergers == 10

\* timedelta(days=days), in minutes
MinutesOfDays(days) == days * 24 * 60

\* recent = [p for p in prs if p.merged_at and p.merged_by
\*           and p.merged_at.replace(tzinfo=None) > cutoff]
RecentMerges(prs, days, now) ==
    LET cutoff == now - MinutesOfDays(days)
        IsRecent(p) == HasMergeInfo(p) /\ Val(p.merged_at) > cutoff
    IN  SelectSeq(prs, IsRecent)

\* Counter(p.merged_by for p in recent): <<login, count>> pairs in the order
\* in which the logins are first seen
RECURSIVE CountInto(_, _)
CountInto(counts, login) ==
    IF counts = <<>> THEN <<<<login, 1>>>>
    ELSE IF Head(counts)[1] = login
         THEN <<<<login, Head(counts)[2] + 1>>>> \o Tail(counts)
         ELSE <<Head(counts)>> \o CountInto(Tail(counts), login)

RECURSIVE CounterFrom(_, _)
CounterFrom(counts, recent) ==
    IF recent = <<>> THEN counts
    ELSE CounterFrom(CountInto(counts, Val(Head(recent).merged_by)), Tail(recent))

\* Counter.most_common(): sorted by count, largest first, ties in first-seen order
RECURSIVE InsertByCountDesc(_, _)
InsertByCountDesc(sorted, item) ==
    IF sorted = <<>> THEN <<item>>
    ELSE IF Head(sorted)[2] >= item[2]
         THEN <<Head(sorted)>> \o InsertByCountDesc(Tail(sorted), item)
         ELSE <<item>> \o sorted

RECURSIVE MostCommonFrom(_, _)
MostCommonFrom(sorted, counts) ==
    IF counts = <<>> THEN sorted
    ELSE MostCommonFrom(InsertByCountDesc(sorted, Head(counts)), Tail(counts))

most_common(counts) == MostCommonFrom(<<>>, counts)

\* sum(merger_counts.values())
RECURSIVE SumCounts(_)
SumCounts(counts) ==
    IF counts = <<>> THEN 0 ELSE Head(counts)[2] + SumCounts(Tail(counts))

\* A faulty ReachedHalf: the share has to exceed one half
ReachedHalfStrict(cumulative, total) == RatLt(Rat(1, 2), Rat(cumulative, total))

\* cumulative / total >= 0.5
ReachedHalf(cumulative, total) == RatLe(Rat(1, 2), Rat(cumulative, total))

\* for login, count in sorted_mergers: ...; if cumulative / total >= 0.5: break
RECURSIVE BusFactorLoop(_, _, _, _)
BusFactorLoop(rest, cumulative, bus_factor, total) ==
    IF rest = <<>> THEN bus_factor
    ELSE LET cumulative1 == cumulative + Head(rest)[2]
             bus_factor1 == bus_factor + 1
         IN  IF ReachedHalf(cumulative1, total) THEN bus_factor1
             ELSE BusFactorLoop(Tail(rest), cumulative1, bus_factor1, total)

\* datetime.now() is the argument now
compute_bus_factor(prs, days, now) ==
    LET recent == RecentMerges(prs, days, now)
        merger_counts == CounterFrom(<<>>, recent)
        total == SumCounts(merger_counts)
        sorted_mergers == most_common(merger_counts)
    IN  IF recent = <<>> THEN [bus_factor |-> 0, top_mergers |-> <<>>]
        ELSE [bus_factor |-> BusFactorLoop(sorted_mergers, 0, 0, total),
              top_mergers |-> SubSeq(sorted_mergers, 1,
                                     Min2(TopMergers, Len(sorted_mergers)))]

----------------------------------------------------------------------------
(* Bounds and input sets of the bus-factor specification *)

\* The longest PR list
MaxBusPRs == 4

BusMergers == {"alice", "bob", "carol"}
BusDays == {1, DefaultDays}

\* The wall clock of the call: 100 days into the modelled time
BusNow == MinutesOfDays(100)

\* What compute_bus_factor reads of a PR under a lookback of days: merged by
\* one of the mergers either exactly at the cutoff (not recent) or a minute
\* after it (recent), or lacking merged_at, or lacking merged_by
BusPRs(days) ==
    [merged_at : {Some(BusNow - MinutesOfDays(days)),
                  Some(BusNow - MinutesOfDays(days) + 1)},
     merged_by : {Some(m) : m \in BusMergers}]
    \cup {[merged_at |-> None, merged_by |-> Some("alice")],
          [merged_at |-> Some(BusNow), merged_by |-> None]}

InitBus ==
    /\ pc = "call"
    /\ fn = "compute_bus_factor"
    /\ \E k \in 0..MaxBusPRs, days \in BusDays :
           \E prs \in [1..k -> BusPRs(days)] :
               args = [prs |-> prs, days |-> days, now |-> BusNow]
    /\ result = <<>>
    /\ FreshCache

CallBusFactor ==
    /\ pc = "call"
    /\ fn = "compute_bus_factor"
    /\ result' = compute_bus_factor(args.prs, args.days, args.now)
    /\ pc' = "done"
    /\ UNCHANGED <<fn, args, cache, clock, hist>>

NextBus == CallBusFactor

SpecBus == InitBus /\ [][NextBus]_vars

BusDone == pc = "done" /\ fn = "compute_bus_factor"

\* The places of the PRs with merged_at and merged_by inside the lookback window
RecentAt ==
    {i \in 1..Len(args.prs) :
        /\ args.prs[i].merged_at # None
        /\ args.prs[i].merged_by # None
        /\ Val(args.prs[i].merged_at) > args.now - args.days * 24 * 60}

RecentMergers == {Val(args.prs[i].merged_by) : i \in RecentAt}

\* The recent merges of the mergers in S
MergesOf(S) == Cardinality({i \in RecentAt : Val(args.prs[i].merged_by) \in S})

\* Some k mergers hold at least 50% of the recent merges (then the k with the
\* largest counts do)
Covers(k) ==
    \E S \in SUBSET RecentMergers :
        Cardinality(S) = k /\ 2 * MergesOf(S) >= Cardinality(RecentAt)

----------------------------------------------------------------------------
(* Strings: str.lower, str.strip, str.startswith, the substring test `in`,
   and the \b and \s of the re module *)

UpperLetters == "ABCDEFGHIJKLMNOPQRSTUVWXYZ"
LowerLetters == "abcdefghijklmnopqrstuvwxyz"
Digits == "0123456789"

CharAt(s, i) == SubSeq(s, i, i)
CharsOf(s) == {CharAt(s, i) : i \in 1..Len(s)}

\* \s
SpaceChars == {" ", "\t", "\n", "\r", "\f"}
IsSpace(c) == c \in SpaceChars

\* \w
WordChars == CharsOf(UpperLetters) \cup CharsOf(LowerLetters)
                 \cup CharsOf(Digits) \cup {"_"}
IsWordChar(c) == c \in WordChars

\* The lower-case letter of each upper-case letter
LowerOf ==
    [c \in CharsOf(UpperLetters) |->
        CharAt(LowerLetters, CHOOSE i \in 1..Len(UpperLetters) : CharAt(UpperLetters, i) = c)]

LowerChar(c) == IF c \in DOMAIN LowerOf THEN LowerOf[c] ELSE c

\* s.lower()
RECURSIVE lower(_)
lower(s) ==
    IF Len(s) = 0 THEN ""
    ELSE LowerChar(CharAt(s, 1)) \o lower(SubSeq(s, 2, Len(s)))

\* s.strip()
RECURSIVE lstrip(_)
lstrip(s) ==
    IF Len(s) > 0 /\ IsSpace(CharAt(s, 1)) THEN lstrip(SubSeq(s, 2, Len(s))) ELSE s

RECURSIVE rstrip(_)
rstrip(s) ==
    IF Len(s) > 0 /\ IsSpace(CharAt(s, Len(s)))
    THEN rstrip(SubSeq(s, 1, Len(s) - 1)) ELSE s

strip(s) == rstrip(lstrip(s))

\* s.startswith(prefix), and s.startswith(prefix, i - 1) for the 1-based place i
StartsWithAt(s, prefix, i) ==
    /\ i + Len(prefix) - 1 <= Len(s)
    /\ SubSeq(s, i, i + Len(prefix) - 1) = prefix

startswith(s, prefix) == StartsWithAt(s, prefix, 1)

\* sub in s
Contains(s, sub) == \E i \in 1..(Len(s) + 1) : StartsWithAt(s, sub, i)

\* re.search(r"\bword\b", s), for a word made of word characters
HasWord(s, word) ==
    \E i \in 1..Len(s) :
        /\ StartsWithAt(s, word, i)
        /\ i = 1 \/ ~IsWordChar(CharAt(s, i - 1))
        /\ i + Len(word) > Len(s) \/ ~IsWordChar(CharAt(s, i + Len(word)))

HasAnyWord(s, words) == \E w \in words : HasWord(s, w)

----------------------------------------------------------------------------
(* categorize_pr (analysis.py 53-89) *)

\* The (prefix, category) pairs, in the order in which they are tried
PrefixTable ==
    << <<"fix", "fix">>, <<"bug", "fix">>,
       <<"feat", "feat">>, <<"feature", "feat">>,
       <<"doc", "docs">>, <<"readme", "docs">>,
       <<"dep", "deps">>, <<"bump", "deps">>, <<"upgrade", "deps">>,
       <<"chore(deps)", "deps">>,
       <<"refactor", "refactor">>, <<"cleanup", "refactor">>,
       <<"clean up", "refactor">>,
       <<"test", "test">>, <<"ci", "ci">>, <<"chore", "chore">> >>

\* for prefix, cat in [...]: if title_lower.startswith(prefix): return cat
RECURSIVE PrefixLoop(_, _)
PrefixLoop(table, title_lower) ==
    IF table = <<>> THEN None
    ELSE IF startswith(title_lower, Head(table)[1]) THEN Some(Head(table)[2])
         ELSE PrefixLoop(Tail(table), title_lower)

\* The four tests made on one label, in their order
LabelRule(label) ==
    IF Contains(label, "bug") \/ Contains(label, "fix") THEN Some("fix")
    ELSE IF Contains(label, "feature") \/ Contains(label, "enhancement") THEN Some("feat")
    ELSE IF Contains(label, "documentation") \/ Contains(label, "docs") THEN Some("docs")
    ELSE IF Contains(label, "dependencies") \/ Contains(label, "deps") THEN Some("deps")
    ELSE None

\* for label in labels_lower: ...
RECURSIVE LabelLoop(_)
LabelLoop(labels_lower) ==
    IF labels_lower = <<>> THEN None
    ELSE IF LabelRule(Head(labels_lower)) # None THEN LabelRule(Head(labels_lower))
         ELSE LabelLoop(Tail(labels_lower))

\* The three re.search tests on the title
KeywordRule(title_lower) ==
    IF HasAnyWord(title_lower, {"dependabot", "renovate", "bump"}) THEN Some("deps")
    ELSE IF HasAnyWord(title_lower, {"fix", "fixes", "fixed"}) THEN Some("fix")
    ELSE IF HasAnyWord(title_lower, {"add", "adds", "added", "implement"}) THEN Some("feat")
    ELSE None

\* A faulty categorize_pr: the labels are consulted before the prefixes
categorize_pr_labels_first(title, labels) ==
    LET title_lower == strip(lower(title))
        labels_lower == [i \in 1..Len(labels) |-> lower(labels[i])]
    IN  IF LabelLoop(labels_lower) # None THEN Val(LabelLoop(labels_lower))
        ELSE IF PrefixLoop(PrefixTable, title_lower) # None
        THEN Val(PrefixLoop(PrefixTable, title_lower))
        ELSE IF KeywordRule(title_lower) # None THEN Val(KeywordRule(title_lower))
        ELSE "other"

categorize_pr(title, labels) ==
    LET title_lower == strip(lower(title))
        labels_lower == [i \in 1..Len(labels) |-> lower(labels[i])]
    IN  IF PrefixLoop(PrefixTable, title_lower) # None
        THEN Val(PrefixLoop(PrefixTable, title_lower))
        ELSE IF LabelLoop(labels_lower) # None THEN Val(LabelLoop(labels_lower))
        ELSE IF KeywordRule(title_lower) # None THEN Val(KeywordRule(title_lower))
        ELSE "other"

----------------------------------------------------------------------------
(* Bounds and input sets of the categorizer specification *)

\* The longest label list
MaxLabels == 2

CatTitles ==
    {"fix: null check", "Bump lodash from 1 to 2", "random change",
     "chore(deps): bump lodash", "chore: tidy up", "  FIX crash ",
     "Feature: dark mode", "deploy script", "circle config", "readme typo",
     "Clean up parser", "this fixes the crash", "prefix handling",
     "now bump and fix it", "implement and fix parser", "We added caching",
     "Update README", "renovate config"}

CatLabels ==
    {"bug", "docs", "enhancement", "dependencies", "Bugfix", "feature-docs",
     "question"}

InitCat ==
    /\ pc = "call"
    /\ fn = "categorize_pr"
    /\ \E title \in CatTitles, k \in 0..MaxLabels :
           \E labels \in [1..k -> CatLabels] :
               args = [title |-> title, labels |-> labels]
    /\ result = <<>>
    /\ FreshCache

CallCategorize ==
    /\ pc = "call"
    /\ fn = "categorize_pr"
    /\ result' = categorize_pr(args.title, args.labels)
    /\ pc' = "done"
    /\ UNCHANGED <<fn, args, cache, clock, hist>>

NextCat == CallCategorize

SpecCat == InitCat /\ [][NextCat]_vars

CatDone == pc = "done" /\ fn = "categorize_pr"

\* The call's title as the prefix and keyword rules see it
CatTitleLower == strip(lower(args.title))

\* The places of the table whose prefix starts the title
MatchingPrefixes ==
    {i \in 1..Len(PrefixTable) : startswith(CatTitleLower, PrefixTable[i][1])}

\* The categories that a label rule gives to some label of the call
LabelCategories ==
    {c \in {"fix", "feat", "docs", "deps"} :
        \E i \in 1..Len(args.labels) : LabelRule(lower(args.labels[i])) = Some(c)}

\* What the keyword regexes give the title
KeywordCategory ==
    IF HasAnyWord(CatTitleLower, {"dependabot", "renovate", "bump"}) THEN "deps"
    ELSE IF HasAnyWord(CatTitleLower, {"fix", "fixes", "fixed"}) THEN "fix"
    ELSE IF HasAnyWord(CatTitleLower, {"add", "adds", "added", "implement"}) THEN "feat"
    ELSE "other"

\* C9: categorize_pr applies its rules in strict priority order: a title
\* whose lower-cased, stripped form starts with a prefix of the table gets the
\* category of the first such entry whatever the labels are (a title starting
\* with "chore(deps)" is deps, not chore); otherwise the label rules decide;
\* otherwise the keyword regexes; otherwise "other".  "fix: null check" is
\* fix, "Bump lodash from 1 to 2" is deps and "random change" is other, all
\* without labels.
C9_PriorityOrder ==
    CatDone =>
        /\ MatchingPrefixes # {} =>
               \E i \in MatchingPrefixes :
                   /\ \A k \in MatchingPrefixes : i <= k
                   /\ result = PrefixTable[i][2]
        /\ startswith(CatTitleLower, "chore(deps)") => result = "deps"
        /\ (MatchingPrefixes = {} /\ LabelCategories # {}) =>
               result \in LabelCategories
        /\ (MatchingPrefixes = {} /\ LabelCategories = {}) =>
               result = KeywordCategory
        /\ args.labels = <<>> =>
               /\ args.title = "fix: null check" => result = "fix"
               /\ args.title = "Bump lodash from 1 to 2" => result = "deps"
               /\ args.title = "random change" => result = "other"

\* A title with the prefix "chore(deps)" (and so "chore") under a label that
\* a label rule would make a fix
C9_Witness ==
    /\ CatDone
    /\ startswith(CatTitleLower, "chore(deps)")
    /\ "fix" \in LabelCategories
    /\ result = "deps"

\* All orders of a list
RECURSIVE Orders(_)
Orders(l) ==
    IF l = <<>> THEN {<<>>}
    ELSE UNION {{<<l[i]>> \o rest :
                    rest \in Orders([k \in 1..(Len(l) - 1) |->
                                         IF k < i THEN l[k] ELSE l[k + 1]])} :
                i \in 1..Len(l)}

\* C10: the order of the labels is irrelevant: categorize_pr returns the same
\* category for every permutation of the labels.
C10_LabelOrderIrrelevant ==
    CatDone =>
        \A labels \in Orders(args.labels) :
            categorize_pr(args.title, labels) = result

----------------------------------------------------------------------------
(* detect_spam_prs (analysis.py 273-296) *)

\* merged_authors = {p.author for p in prs if p.state == "MERGED"}
merged_authors(prs) ==
    {prs[i].author : i \in {k \in 1..Len(prs) : prs[k].state = "MERGED"}}

\* re.compile(r'^(update|edit|patch|change)\s+(readme|file|code)',
\*            re.IGNORECASE).match(title)
generic_patterns_match(title) ==
    LET t == lower(title)
    IN  \E verb \in {"update", "edit", "patch", "change"} :
            /\ startswith(t, verb)
            /\ \E n \in 1..(Len(t) - Len(verb)) :
                   /\ \A k \in 1..n : IsSpace(CharAt(t, Len(verb) + k))
                   /\ \E noun \in {"readme", "file", "code"} :
                          StartsWithAt(t, noun, Len(verb) + n + 1)

\* A faulty IsInspected: only merged PRs are skipped
IsInspectedUnlessMerged(pr) == pr.state # "MERGED"

\* if pr.state != "CLOSED": continue
IsInspected(pr) == pr.state = "CLOSED"

\* A faulty ClosedQuickly: five minutes still count as quick
ClosedQuicklyInclusive(pr) ==
    /\ ~IsNone(pr.closed_at)
    /\ RatLe(Rat(total_seconds(Val(pr.closed_at), pr.created_at), 60), RatInt(5))

\* pr.closed_at and pr.created_at, and
\* minutes = (pr.closed_at - pr.created_at).total_seconds() / 60 < 5
ClosedQuickly(pr) ==
    /\ ~IsNone(pr.closed_at)
    /\ RatLt(Rat(total_seconds(Val(pr.closed_at), pr.created_at), 60), RatInt(5))

\* The body of the loop for one PR: whether it is appended to spam
IsSpam(pr, authors) ==
    /\ IsInspected(pr)
    /\ \/ ClosedQuickly(pr) /\ pr.author \notin authors
       \/ generic_patterns_match(pr.title) /\ pr.author \notin authors

detect_spam_prs(prs) ==
    LET authors == merged_authors(prs)
        Spam(pr) == IsSpam(pr, authors)
    IN  SelectSeq(prs, Spam)

----------------------------------------------------------------------------
(* Bounds and input sets of the spam specification *)

\* The longest PR list
MaxSpamPRs == 3

SpamAuthors == {"alice", "bob"}
GenericTitle == "Update  README.md"
PlainTitle == "Please update readme"

\* What detect_spam_prs reads of a PR, less its number.  Every PR is created
\* at minute 0.  A closed PR was closed after 4 or 5 minutes or has no
\* closed_at, under a generic or a plain title; a merged and an open PR carry
\* what would make a closed one spam.
SpamPRFields ==
    [state : {"CLOSED"}, author : SpamAuthors, created_at : {0},
     closed_at : {None, Some(4), Some(5)}, title : {GenericTitle, PlainTitle}]
    \cup [state : {"MERGED"}, author : SpamAuthors, created_at : {0},
          closed_at : {Some(4)}, title : {GenericTitle}]
    \cup [state : {"OPEN"}, author : SpamAuthors, created_at : {0},
          closed_at : {None}, title : {GenericTitle}]

NumberedSpam(fields) ==
    [i \in 1..Len(fields) |->
        [number |-> i, state |-> fields[i].state, author |-> fields[i].author,
         created_at |-> fields[i].created_at, closed_at |-> fields[i].closed_at,
         title |-> fields[i].title]]

InitSpam ==
    /\ pc = "call"
    /\ fn = "detect_spam_prs"
    /\ \E k \in 0..MaxSpamPRs :
           \E f \in [1..k -> SpamPRFields] : args = [prs |-> NumberedSpam(f)]
    /\ result = <<>>
    /\ FreshCache

CallDetectSpam ==
    /\ pc = "call"
    /\ fn = "detect_spam_prs"
    /\ result' = detect_spam_prs(args.prs)
    /\ pc' = "done"
    /\ UNCHANGED <<fn, args, cache, clock, hist>>

NextSpam == CallDetectSpam

SpecSpam == InitSpam /\ [][NextSpam]_vars

SpamDone == pc = "done" /\ fn = "detect_spam_prs"

\* C7: every PR returned by detect_spam_prs has state CLOSED; merged and open
\* PRs are never returned, so an input of open PRs only yields the empty list.
C7_OnlyClosed ==
    SpamDone =>
        /\ \A k \in 1..Len(result) : result[k].state = "CLOSED"
        /\ (\A i \in 1..Len(args.prs) : args.prs[i].state = "OPEN") => result = <<>>

\* Only open PRs, with generic titles, by authors without a merge: nothing
\* is returned
C7_Witness ==
    /\ SpamDone
    /\ Len(args.prs) = MaxSpamPRs
    /\ \A i \in 1..Len(args.prs) :
           args.prs[i].state = "OPEN" /\ args.prs[i].title = GenericTitle
    /\ result = <<>>

\* The PR at place i is returned
Returned(i) == \E k \in 1..Len(result) : result[k] = args.prs[i]

\* The author of the PR at place i has a merged PR somewhere in the list
AuthorHasMerge(i) ==
    \E k \in 1..Len(args.prs) :
        args.prs[k].state = "MERGED" /\ args.prs[k].author = args.prs[i].author

\* C8: detect_spam_prs returns a closed PR if and only if its author has no
\* merged PR anywhere in the whole input list, before or after it, and either
\* closed_at - created_at is strictly less than 5 minutes or the title matches
\* the generic pattern.
C8_SpamIff ==
    SpamDone =>
        \A i \in 1..Len(args.prs) :
            args.prs[i].state = "CLOSED" =>
                (Returned(i) <=>
                    /\ ~AuthorHasMerge(i)
                    /\ \/ /\ args.prs[i].closed_at # None
                          /\ Val(args.prs[i].closed_at) - args.prs[i].created_at < 5
                       \/ generic_patterns_match(args.prs[i].title))

\* A closed PR is returned beside a quickly closed one of another author that
\* is not, because that author's merged PR comes later in the list
C8_Witness ==
    /\ SpamDone
    /\ Len(args.prs) = 3
    /\ args.prs[1].state = "CLOSED" /\ args.prs[1].closed_at = Some(4)
    /\ args.prs[2].state = "CLOSED" /\ args.prs[2].closed_at = Some(5)
    /\ args.prs[2].title = GenericTitle
    /\ args.prs[3].state = "MERGED" /\ args.prs[3].author = args.prs[1].author
    /\ result = <<args.prs[2]>>

----------------------------------------------------------------------------
(* find_similar_prs (analysis.py 250-270) *)

\* re.findall(r'\w+', s)[i..], as a set; cur is the run of word characters
\* read so far
RECURSIVE FindWordsFrom(_, _, _)
FindWordsFrom(s, i, cur) ==
    IF i > Len(s) THEN (IF cur = "" THEN {} ELSE {cur})
    ELSE IF IsWordChar(CharAt(s, i))
         THEN FindWordsFrom(s, i + 1, cur \o CharAt(s, i))
         ELSE (IF cur = "" THEN {} ELSE {cur}) \cup FindWordsFrom(s, i + 1, "")

\* set(re.findall(r'\w+', title.lower()))
title_tokens(title) == FindWordsFrom(lower(title), 1, "")

\* len(a & b) / len(a | b), 0.0 when either set is empty
jaccard(target_tokens, pr_tokens) ==
    IF target_tokens = {} \/ pr_tokens = {} THEN RatInt(0)
    ELSE Rat(Cardinality(target_tokens \cap pr_tokens),
             Cardinality(target_tokens \cup pr_tokens))

\* bonus: 0.2 for the target's category, 0.1 for the target's size
similarity_bonus(target, pr) ==
    LET bonus1 == IF pr.category = target.category THEN Rat(2, 10) ELSE RatInt(0)
    IN  IF size(pr) = size(target) THEN RatAdd(bonus1, Rat(1, 10)) ELSE bonus1

\* jaccard + bonus
similarity(target, pr) ==
    RatAdd(jaccard(title_tokens(target.title), title_tokens(pr.title)),
           similarity_bonus(target, pr))

\* A faulty StaysAhead: an entry already placed yields to a later one of the
\* same score
StaysAheadStrict(placed, item) == RatLt(item[1], placed[1])

\* list.sort(key=..., reverse=True) is stable: an entry already placed stays
\* ahead of a later one whose score is not larger
StaysAhead(placed, item) == RatLe(item[1], placed[1])

RECURSIVE InsertByScoreDesc(_, _)
InsertByScoreDesc(sorted, item) ==
    IF sorted = <<>> THEN <<item>>
    ELSE IF StaysAhead(Head(sorted), item)
         THEN <<Head(sorted)>> \o InsertByScoreDesc(Tail(sorted), item)
         ELSE <<item>> \o sorted

\* scored.sort(key=lambda x: x[0], reverse=True)
RECURSIVE SortByScoreDescFrom(_, _)
SortByScoreDescFrom(sorted, scored) ==
    IF scored = <<>> THEN sorted
    ELSE SortByScoreDescFrom(InsertByScoreDesc(sorted, Head(scored)), Tail(scored))

\* s[:n] for n >= 0
Prefix(s, n) == SubSeq(s, 1, Min2(n, Len(s)))

find_similar_prs(target, candidates, top_n) ==
    LET scored == [i \in 1..Len(candidates) |->
                      <<similarity(target, candidates[i]), candidates[i]>>]
        ranked == Prefix(SortByScoreDescFrom(<<>>, scored), top_n)
    IN  [i \in 1..Len(ranked) |-> ranked[i][2]]

----------------------------------------------------------------------------
(* Bounds and input sets of the similarity specification *)

\* The candidate list holds at most MaxSimPRs PRs
MaxSimPRs == 3

\* top_n's default
DefaultTopN == 3

SimTargetTitle == "Fix bug"

\* Titles that share all, one or none of the target's tokens, and one without
\* any token
SimTitles == {"fix: BUG", "a-bug", "--"}

\* What find_similar_prs reads of a candidate: two categories and a size
\* bucket on either side of the target's
SimPRFields ==
    [title : SimTitles, category : {"fix", "other"},
     additions : {5, 100}, deletions : {0}]

\* The candidates, numbered by their place in the list
NumberedSim(f) ==
    [i \in DOMAIN f |->
        [number |-> i, title |-> f[i].title, category |-> f[i].category,
         additions |-> f[i].additions, deletions |-> f[i].deletions]]

InitSimilar ==
    /\ pc = "call"
    /\ fn = "find_similar_prs"
    /\ \E k \in 0..MaxSimPRs, n \in 0..DefaultTopN :
           \E f \in [1..k -> SimPRFields] :
               args = [target |-> [number |-> 0, title |-> SimTargetTitle,
                                   category |-> "fix", additions |-> 5,
                                   deletions |-> 0],
                       candidates |-> NumberedSim(f),
                       top_n |-> n]
    /\ result = <<>>
    /\ FreshCache

CallFindSimilar ==
    /\ pc = "call"
    /\ fn = "find_similar_prs"
    /\ result' = find_similar_prs(args.target, args.candidates, args.top_n)
    /\ pc' = "done"
    /\ UNCHANGED <<fn, args, cache, clock, hist>>

NextSimilar == CallFindSimilar

SpecSimilar == InitSimilar /\ [][NextSimilar]_vars

SimDone == pc = "done" /\ fn = "find_similar_prs"

\* score = Jaccard(title tokens) + 0.2 if same category + 0.1 if same size
SimScore(pr) == similarity(args.target, pr)

\* The numbers of the returned PRs
ReturnedNumbers == {result[i].number : i \in 1..Len(result)}

\* C11: find_similar_prs(target, candidates, top_n) returns exactly
\* min(top_n, len(candidates)) PRs, all taken from candidates (the empty list
\* gives []), in non-increasing order of score, where candidates of equal
\* score keep their original relative order and no omitted candidate has a
\* strictly higher score than a returned one.
C11_SimilarRanking ==
    SimDone =>
        /\ Len(result) = Min2(args.top_n, Len(args.candidates))
        /\ \A i \in 1..Len(result) :
               /\ result[i].number \in 1..Len(args.candidates)
               /\ result[i] = args.candidates[result[i].number]
        /\ \A i, j \in 1..Len(result) :
               i < j =>
                   /\ RatLe(SimScore(result[j]), SimScore(result[i]))
                   /\ RatEq(SimScore(result[j]), SimScore(result[i]))
                          => result[i].number < result[j].number
        /\ \A k \in 1..Len(args.candidates) :
               k \notin ReturnedNumbers =>
                   \A i \in 1..Len(result) :
                       ~RatLt(SimScore(result[i]), SimScore(args.candidates[k]))

\* Three candidates and top_n = 2: the first scores lowest and is omitted, the
\* other two score the same and come back in their original order
C11_Witness ==
    /\ SimDone
    /\ Len(args.candidates) = 3
    /\ args.top_n = 2
    /\ RatLt(SimScore(args.candidates[1]), SimScore(args.candidates[2]))
    /\ RatEq(SimScore(args.candidates[2]), SimScore(args.candidates[3]))
    /\ result = <<args.candidates[2], args.candidates[3]>>

----------------------------------------------------------------------------
(* parse_datetime and parse_pr_node (analysis.py 15-50)

   A raw record is a dict: a function whose domain is the set of keys that
   are present.  The value under a key is None for a JSON null and Some(v)
   otherwise; the objects nested in a record (author, mergedBy, labels,
   reviews) are dicts whose values are never null.  A call either returns a
   value or raises an exception. *)

Return(v) == [ok |-> TRUE, value |-> v]
Raise(e) == [ok |-> FALSE, error |-> e]

\* {}
EmptyDict == <<>>

\* dict.get(key, default)
Get(dict, key, default) == IF key \in DOMAIN dict THEN dict[key] ELSE default

\* (x or {}) for x a dict or None
OrEmptyDict(x) == IF IsNone(x) THEN EmptyDict ELSE Val(x)

\* s.replace("Z", "+00:00")
RECURSIVE ReplaceZ(_)
ReplaceZ(s) ==
    IF Len(s) = 0 THEN ""
    ELSE (IF CharAt(s, 1) = "Z" THEN "+00:00" ELSE CharAt(s, 1))
             \o ReplaceZ(SubSeq(s, 2, Len(s)))

IsDigit(c) == c \in CharsOf(Digits)

\* int(c) for a digit c
DigitValue(c) == CHOOSE v \in 0..9 : CharAt(Digits, v + 1) = c

\* int(s[a:b+1]) for a run of digits
RECURSIVE IntOf(_, _, _)
IntOf(s, a, b) ==
    IF a > b THEN 0 ELSE IntOf(s, a, b - 1) * 10 + DigitValue(CharAt(s, b))

\* The shape YYYY-MM-DDTHH:MM:SS+HH:MM (or -HH:MM) with fields in range.
\* datetime.fromisoformat accepts further shapes (a date alone, fractions of
\* a second, no offset); they are outside the strings this model draws.
IsIsoDateTime(s) ==
    /\ Len(s) = 25
    /\ CharAt(s, 5) = "-" /\ CharAt(s, 8) = "-" /\ CharAt(s, 11) = "T"
    /\ CharAt(s, 14) = ":" /\ CharAt(s, 17) = ":"
    /\ CharAt(s, 20) \in {"+", "-"} /\ CharAt(s, 23) = ":"
    /\ \A i \in (1..25) \ {5, 8, 11, 14, 17, 20, 23} : IsDigit(CharAt(s, i))
    /\ IntOf(s, 1, 4) >= 1
    /\ IntOf(s, 6, 7) \in 1..12 /\ IntOf(s, 9, 10) \in 1..31
    /\ IntOf(s, 12, 13) <= 23 /\ IntOf(s, 15, 16) <= 59 /\ IntOf(s, 18, 19) <= 59
    /\ IntOf(s, 21, 22) <= 23 /\ IntOf(s, 24, 25) <= 59

\* Days from 1970-01-01 to the date y-m-d of the proleptic Gregorian calendar
DaysFromCivil(y, m, d) ==
    LET yy == IF m <= 2 THEN y - 1 ELSE y
        era == yy \div 400
        yoe == yy - era * 400
        mp == IF m > 2 THEN m - 3 ELSE m + 9
        doy == (153 * mp + 2) \div 5 + d - 1
        doe == yoe * 365 + yoe \div 4 - yoe \div 100 + doy
    IN  era * 146097 + doe - 719468

\* The instant a well-formed string names, in minutes of UTC since 1970 (the
\* strings drawn have whole minutes)
MinutesOfIso(s) ==
    LET offset == IntOf(s, 21, 22) * 60 + IntOf(s, 24, 25)
    IN  DaysFromCivil(IntOf(s, 1, 4), IntOf(s, 6, 7), IntOf(s, 9, 10)) * 1440
            + IntOf(s, 12, 13) * 60 + IntOf(s, 15, 16)
            - (IF CharAt(s, 20) = "-" THEN -offset ELSE offset)

\* parse_datetime(s) for s a str or None
parse_datetime(s) ==
    IF IsNone(s) \/ Val(s) = "" THEN Return(None)
    ELSE LET iso == ReplaceZ(Val(s))
         IN  IF IsIsoDateTime(iso) THEN Return(Some(MinutesOfIso(iso)))
             ELSE Raise("ValueError")

\* if pr.merged_at and pr.created_at
HasMergeTime(merged_at, created_at) == ~IsNone(merged_at) /\ ~IsNone(created_at)

\* node.get("labels", {}).get("nodes", []): None has no get
LabelsOrRaise(node) ==
    LET conn == Get(node, "labels", Some(EmptyDict))
    IN  IF IsNone(conn) THEN Raise("AttributeError")
        ELSE Return(Get(Val(conn), "nodes", <<>>))

\* node.get("reviews", {}).get("totalCount", 0)
ReviewCountOrRaise(node) ==
    LET conn == Get(node, "reviews", Some(EmptyDict))
    IN  IF IsNone(conn) THEN Raise("AttributeError")
        ELSE Return(Get(Val(conn), "totalCount", 0))

\* The statements of parse_pr_node in the order they are evaluated; the first
\* one that raises ends the call
parse_pr_node(node, state) ==
    LET author == Get(OrEmptyDict(Get(node, "author", None)), "login", "ghost")
        label_nodes == LabelsOrRaise(node)
        labels == [i \in 1..Len(label_nodes.value) |-> label_nodes.value[i].name]
        created == parse_datetime(node["createdAt"])
        merged == parse_datetime(Get(node, "mergedAt", None))
        closed == parse_datetime(Get(node, "closedAt", None))
        merged_by_obj == OrEmptyDict(Get(node, "mergedBy", None))
        review_count == ReviewCountOrRaise(node)
    IN  IF ~label_nodes.ok THEN label_nodes
        ELSE IF "createdAt" \notin DOMAIN node THEN Raise("KeyError")
        ELSE IF ~created.ok THEN created
        ELSE IF ~merged.ok THEN merged
        ELSE IF ~closed.ok THEN closed
        ELSE IF "number" \notin DOMAIN node THEN Raise("KeyError")
        ELSE IF "title" \notin DOMAIN node THEN Raise("KeyError")
        ELSE IF ~review_count.ok THEN review_count
        ELSE Return(
            [number |-> Val(node["number"]),
             title |-> Val(node["title"]),
             author |-> author,
             state |-> state,
             created_at |-> created.value,
             merged_at |-> merged.value,
             closed_at |-> closed.value,
             merged_by |-> IF "login" \in DOMAIN merged_by_obj
                           THEN Some(merged_by_obj.login) ELSE None,
             labels |-> labels,
             additions |-> Get(node, "additions", Some(0)),
             deletions |-> Get(node, "deletions", Some(0)),
             changed_files |-> Get(node, "changedFiles", Some(0)),
             review_count |-> review_count.value,
             category |-> categorize_pr(Val(node["title"]), labels),
             time_to_merge_hours |->
                 IF HasMergeTime(merged.value, created.value)
                 THEN Some(Rat(total_seconds(Val(merged.value), Val(created.value)),
                               3600))
                 ELSE None])

----------------------------------------------------------------------------
(* Input sets of the normalizer specification *)

\* What a raw record holds under one key: nothing, null, or a value
AbsentKey == [present |-> FALSE, value |-> None]
NullValue == [present |-> TRUE, value |-> None]
Given(v) == [present |-> TRUE, value |-> Some(v)]

\* The dict of the keys that are present
MakeNode(fields) ==
    [k \in {key \in DOMAIN fields : fields[key].present} |-> fields[k].value]

RequiredKeys == {"number", "title", "createdAt"}
PRStates == {"MERGED", "CLOSED", "OPEN"}

CreatedStamp == "2024-02-29T23:30:00Z"
MergedStamp == "2024-03-01T01:00:00Z"
ClosedStamp == "2024-03-01T03:00:00+02:00"
MalformedStamp == "yesterday"

\* The three counts of the diff are absent together, null together or given
DiffStats == {[additions |-> c, deletions |-> c, changedFiles |-> c] :
                 c \in {AbsentKey, NullValue}}
             \cup {[additions |-> Given(12), deletions |-> Given(3),
                    changedFiles |-> Given(2)]}

\* At most one required key is missing; every optional key is absent, null
\* or given
InitParse ==
    /\ pc = "call"
    /\ fn = "parse_pr_node"
    /\ \E missing \in {{}} \cup {{k} : k \in RequiredKeys},
          author \in {AbsentKey, NullValue, Given([login |-> "alice"])},
          mergedBy \in {NullValue, Given([login |-> "bob"])},
          labels \in {AbsentKey, NullValue, Given([nodes |-> <<[name |-> "bug"]>>])},
          reviews \in {AbsentKey, NullValue, Given([totalCount |-> 2])},
          mergedAt \in {AbsentKey, NullValue, Given(MergedStamp), Given(MalformedStamp)},
          closedAt \in {AbsentKey, Given(ClosedStamp)},
          diff \in DiffStats,
          state \in PRStates :
           args = [node |-> MakeNode(
                       [number |-> IF "number" \in missing THEN AbsentKey ELSE Given(7),
                        title |-> IF "title" \in missing THEN AbsentKey
                                  ELSE Given("Update parser"),
                        createdAt |-> IF "createdAt" \in missing THEN AbsentKey
                                      ELSE Given(CreatedStamp),
                        author |-> author, mergedBy |-> mergedBy,
                        labels |-> labels, reviews |-> reviews,
                        mergedAt |-> mergedAt, closedAt |-> closedAt,
                        additions |-> diff.additions, deletions |-> diff.deletions,
                        changedFiles |-> diff.changedFiles]),
                   state |-> state]
    /\ result = <<>>
    /\ FreshCache

CallParsePRNode ==
    /\ pc = "call"
    /\ fn = "parse_pr_node"
    /\ result' = parse_pr_node(args.node, args.state)
    /\ pc' = "done"
    /\ UNCHANGED <<fn, args, cache, clock, hist>>

NextParse == CallParsePRNode

SpecParse == InitParse /\ [][NextParse]_vars

ParseDone == pc = "done" /\ fn = "parse_pr_node"

\* The record gives a timestamp under the key (not absent, not null)
HasStamp(key) == key \in DOMAIN args.node /\ ~IsNone(args.node[key])

\* C12: for every summary produced by parse_pr_node(node, state),
\* time_to_merge_hours is defined if and only if state is MERGED and both
\* created_at and merged_at are present; a record normalized under state
\* CLOSED or OPEN never carries a time_to_merge_hours.
C12_MergeTimeIffMerged ==
    (ParseDone /\ result.ok) =>
        (~IsNone(result.value.time_to_merge_hours) <=>
            /\ args.state = "MERGED"
            /\ ~IsNone(result.value.created_at)
            /\ ~IsNone(result.value.merged_at))

\* Every timestamp the record gives is well formed
StampsWellFormed ==
    \A key \in {"createdAt", "mergedAt", "closedAt"} :
        HasStamp(key) => parse_datetime(args.node[key]).ok

\* C13: parse_pr_node raises an error whenever the raw record lacks number,
\* title or createdAt, and it fails for no other record with well-formed
\* timestamps: when those three are present it returns a summary whatever
\* optional fields are absent or null, with author "ghost" for a null author
\* and an absent timestamp mapped to absent.
C13_FailsOnlyOnMissingRequired ==
    (ParseDone /\ StampsWellFormed) =>
        /\ ~result.ok <=> ~(RequiredKeys \subseteq DOMAIN args.node)
        /\ result.ok =>
               /\ ("author" \in DOMAIN args.node /\ IsNone(args.node["author"]))
                      => result.value.author = "ghost"
               /\ ~HasStamp("mergedAt") => IsNone(result.value.merged_at)
               /\ ~HasStamp("closedAt") => IsNone(result.value.closed_at)

----------------------------------------------------------------------------
(* The factor list of compute_merge_probability (analysis.py 193-247) *)

ProbDone == pc = "done" /\ fn = "compute_merge_probability"

\* Some factor of the returned list is of the kind
HasFactor(kind) == \E i \in 1..Len(result.factors) : result.factors[i].kind = kind

\* The historical PRs of the list that the target's author opened
AuthorCount(prs) ==
    Cardinality({i \in 1..Len(prs) : prs[i].author = args.target.author})

\* The historical PRs of the target's category
CategoryCount ==
    Cardinality({i \in 1..Len(args.merged) :
                    args.merged[i].category = args.target.category})
    + Cardinality({i \in 1..Len(args.closed) :
                      args.closed[i].category = args.target.category})

\* The place of a factor kind in the evaluation order
FactorRank(kind) ==
    CASE kind = "base_rate" -> 1
      [] kind = "category_rate" -> 2
      [] kind \in {"author_merged", "author_closed"} -> 3
      [] kind = "size" -> 4
      [] kind \in {"reviews", "no_reviews"} -> 5
      [] kind \in {"stale", "old", "recent"} -> 6

\* C20: every adjustment that compute_merge_probability applies to the score
\* is accompanied by a factor appended to the returned list in evaluation
\* order (base rate, category rate, author history, size, reviews, age); in
\* particular both the author-merged bonus and the author-closed penalty
\* appear as factors whenever they are applied.
C20_EveryAdjustmentHasFactor ==
    ProbDone =>
        /\ Len(args.merged) + Len(args.closed) > 0 => HasFactor("base_rate")
        /\ CategoryCount >= 3 => HasFactor("category_rate")
        /\ AuthorCount(args.merged) > 0 => HasFactor("author_merged")
        /\ AuthorCount(args.closed) > 0 => HasFactor("author_closed")
        /\ HasFactor("size")
        /\ HasFactor("reviews") \/ HasFactor("no_reviews")
        /\ args.target.age_hours > 60 * 24 => HasFactor("stale")
        /\ (args.target.age_hours > 30 * 24 /\ args.target.age_hours <= 60 * 24)
               => HasFactor("old")
        /\ \A i, j \in 1..Len(result.factors) :
               i < j => FactorRank(result.factors[i].kind)
                            <= FactorRank(result.factors[j].kind)

----------------------------------------------------------------------------
(* core/cache.py: the SQLite cache with TTL

   A row of the table is <<repo, query_key>> |-> [data, fetched_at]; data is
   the JSON text json.dumps wrote.  The program caches lists of raw records
   and the repository object: a raw record is named by its number, so the
   text of a list of records lists the numbers. *)

DEFAULT_TTL == 3600

\* str(n) for n >= 0
RECURSIVE str(_)
str(n) ==
    IF n < 10 THEN CharAt(Digits, n + 1)
    ELSE str(n \div 10) \o CharAt(Digits, (n % 10) + 1)

\* ", ".join(str(n) for n in items)
RECURSIVE JoinNumbers(_)
JoinNumbers(items) ==
    IF items = <<>> THEN ""
    ELSE IF Len(items) = 1 THEN str(items[1])
    ELSE str(Head(items)) \o ", " \o JoinNumbers(Tail(items))

\* json.dumps(data) for a list
json_dumps(items) == "[" \o JoinNumbers(items) \o "]"

\* The numbers of text[i..], cur being the digits read so far
RECURSIVE ParseNumbersFrom(_, _, _)
ParseNumbersFrom(text, i, cur) ==
    IF i > Len(text) THEN (IF cur = "" THEN <<>> ELSE <<IntOf(cur, 1, Len(cur))>>)
    ELSE IF IsDigit(CharAt(text, i))
         THEN ParseNumbersFrom(text, i + 1, cur \o CharAt(text, i))
         ELSE (IF cur = "" THEN <<>> ELSE <<IntOf(cur, 1, Len(cur))>>)
                  \o ParseNumbersFrom(text, i + 1, "")

\* json.dumps(data) for a repository object: {} or
\* {"openPRs": {"totalCount": n}}
json_dumps_object(obj) ==
    IF DOMAIN obj = {} THEN "{}"
    ELSE "{\"openPRs\": {\"totalCount\": "
             \o str(Val(Val(obj.openPRs).totalCount)) \o "}}"

\* json.loads(data) for the text of a repository object
LoadObject(text) ==
    IF text = "{}" THEN EmptyDict
    ELSE [openPRs |-> Some([totalCount |-> Some(ParseNumbersFrom(text, 1, "")[1])])]

\* json.loads(data) for the text of a list or of a repository object
json_loads(text) ==
    IF text # "" /\ CharAt(text, 1) = "{" THEN LoadObject(text)
    ELSE ParseNumbersFrom(text, 1, "")

\* A faulty IsStale: an entry as old as the TTL is stale already
IsStaleInclusive(age, ttl) == age >= ttl

\* time.time() - fetched_at > ttl
IsStale(age, ttl) == age > ttl

\* cache.get(repo, key, ttl) at time t
get(store, t, repo, key, ttl) ==
    IF <<repo, key>> \notin DOMAIN store THEN None
    ELSE IF IsStale(t - store[<<repo, key>>].fetched_at, ttl) THEN None
    ELSE Some(json_loads(store[<<repo, key>>].data))

\* cache.get_offline(repo, key)
get_offline(store, repo, key) ==
    IF <<repo, key>> \notin DOMAIN store THEN None
    ELSE Some(json_loads(store[<<repo, key>>].data))

\* INSERT OR REPLACE of the row (repo, key), dumped being json.dumps(data)
put(store, t, repo, key, dumped) ==
    [row \in DOMAIN store \cup {<<repo, key>>} |->
        IF row = <<repo, key>> THEN [data |-> dumped, fetched_at |-> t]
        ELSE store[row]]

\* A faulty clear: every row is deleted, whatever the repo
clear_every_row(store, repo) == EmptyStore

\* cache.clear(repo): the rows of the repo, or every row for None (and "")
clear(store, repo) ==
    IF ~IsNone(repo) /\ Val(repo) # ""
    THEN [row \in {r \in DOMAIN store : r[1] # Val(repo)} |-> store[row]]
    ELSE EmptyStore

----------------------------------------------------------------------------
(* Bounds and input sets of the cache specification *)

\* The cache.put and cache.clear calls of a behaviour
MaxCacheOps == 2

\* The clock runs from 0 to MaxClock
MaxClock == 2

CacheRepos == {"o/a", "o/b"}
CacheRows == {<<"o/a", "merged_prs">>, <<"o/a", "closed_prs">>, <<"o/b", "merged_prs">>}
CacheData == {<<7>>, <<7, 12>>}
CacheTTLs == {0, 1}

InitCache ==
    /\ pc = "idle"
    /\ fn = "cache"
    /\ args = <<>>
    /\ result = <<>>
    /\ FreshCache

CachePut ==
    /\ Len(hist) < MaxCacheOps
    /\ \E row \in CacheRows, data \in CacheData :
           /\ cache' = put(cache, clock, row[1], row[2], json_dumps(data))
           /\ hist' = Append(hist, [op |-> "put", repo |-> row[1], key |-> row[2],
                                    data |-> data, at |-> clock])
           /\ args' = [repo |-> row[1], key |-> row[2], data |-> data]
    /\ fn' = "cache.put"
    /\ result' = None
    /\ pc' = "done"
    /\ UNCHANGED clock

CacheClear ==
    /\ Len(hist) < MaxCacheOps
    /\ \E repo \in {None} \cup {Some(r) : r \in CacheRepos} :
           /\ cache' = clear(cache, repo)
           /\ hist' = Append(hist, [op |-> "clear", scope |-> repo])
           /\ args' = [repo |-> repo]
    /\ fn' = "cache.clear"
    /\ result' = None
    /\ pc' = "done"
    /\ UNCHANGED clock

\* Time passes between two calls
CacheTick ==
    /\ clock < MaxClock
    /\ clock' = clock + 1
    /\ UNCHANGED <<pc, fn, args, result, cache, hist>>

CacheGet ==
    /\ \E row \in CacheRows, ttl \in CacheTTLs :
           /\ args' = [repo |-> row[1], key |-> row[2], ttl |-> ttl, at |-> clock]
           /\ result' = get(cache, clock, row[1], row[2], ttl)
    /\ fn' = "cache.get"
    /\ pc' = "done"
    /\ UNCHANGED <<cache, clock, hist>>

CacheGetOffline ==
    /\ \E row \in CacheRows :
           /\ args' = [repo |-> row[1], key |-> row[2], at |-> clock]
           /\ result' = get_offline(cache, row[1], row[2])
    /\ fn' = "cache.get_offline"
    /\ pc' = "done"
    /\ UNCHANGED <<cache, clock, hist>>

NextCache == CachePut \/ CacheClear \/ CacheTick \/ CacheGet \/ CacheGetOffline

SpecCache == InitCache /\ [][NextCache]_vars

\* The most recent put to (repo, key) of the history h that no later clear
\* removed, None if there is none
RECURSIVE LivePut(_, _, _)
LivePut(h, repo, key) ==
    IF h = <<>> THEN None
    ELSE LET last == h[Len(h)]
         IN  IF last.op = "clear"
             THEN IF IsNone(last.scope) \/ Val(last.scope) = repo THEN None
                  ELSE LivePut(SubSeq(h, 1, Len(h) - 1), repo, key)
             ELSE IF last.repo = repo /\ last.key = key THEN Some(last)
                  ELSE LivePut(SubSeq(h, 1, Len(h) - 1), repo, key)

\* C16: after any sequence of cache.put, cache.clear and reads,
\* cache.get(repo, key, ttl) returns the value of the most recent put to
\* (repo, key) that has not been cleared if and only if its age is at most
\* ttl, and None otherwise; cache.get_offline(repo, key) returns that value
\* whatever its age, and None only when no such entry exists.
C16_CacheReads ==
    /\ (pc = "done" /\ fn = "cache.get") =>
           LET live == LivePut(hist, args.repo, args.key)
           IN  IF ~IsNone(live) /\ args.at - Val(live).at <= args.ttl
               THEN result = Some(Val(live).data)
               ELSE result = None
    /\ (pc = "done" /\ fn = "cache.get_offline") =>
           LET live == LivePut(hist, args.repo, args.key)
           IN  IF ~IsNone(live) THEN result = Some(Val(live).data)
               ELSE result = None

\* A second put replaced the first, and a get made exactly ttl later returns
\* the value of the second
C16_Witness ==
    /\ pc = "done"
    /\ fn = "cache.get"
    /\ Len(hist) = 2
    /\ hist[1].op = "put" /\ hist[2].op = "put"
    /\ hist[1].repo = args.repo /\ hist[1].key = args.key
    /\ hist[2].repo = args.repo /\ hist[2].key = args.key
    /\ hist[1].data # hist[2].data
    /\ args.ttl = 1
    /\ args.at - hist[2].at = 1
    /\ result = Some(hist[2].data)

----------------------------------------------------------------------------
(* core/github.py: graphql and paginated_query

   What the remote does with the requests of one call is its behaviour:
   the list of the connection's nodes, served in pages, and the request (if
   any) at which the query fails, with the way it fails.  A call returns or
   raises, and its outcome also tells how many requests it issued. *)

\* page_size's default
DefaultPageSize == 50

\* gh exits non-zero, prints no JSON, reports GraphQL errors, or runs into
\* subprocess.run's timeout
FailureKinds == {"exit_nonzero", "invalid_json", "graphql_errors", "timeout"}

\* The response to the k-th request of a call, asking for `first` nodes after
\* the cursor
Respond(remote, k, first, cursor) ==
    LET start == IF IsNone(cursor) THEN 0 ELSE Val(cursor)
        stop == Min2(start + first, Len(remote.nodes))
    IN  IF remote.fail_at = k THEN [kind |-> remote.failure]
        ELSE [kind |-> "ok",
              data |-> [nodes |-> SubSeq(remote.nodes, start + 1, stop),
                        hasNextPage |-> stop < Len(remote.nodes),
                        endCursor |-> IF stop > start THEN Some(stop) ELSE None]]

\* graphql(query, variables), given what gh does with the request
graphql(response) ==
    IF response.kind = "timeout" THEN Raise("TimeoutExpired")
    ELSE IF response.kind = "exit_nonzero" THEN Raise("GitHubAPIError")
    ELSE IF response.kind = "invalid_json" THEN Raise("GitHubAPIError")
    ELSE IF response.kind = "graphql_errors" THEN Raise("GitHubAPIError")
    ELSE Return(response.data)

\* The while loop of paginated_query after `requests` requests
RECURSIVE PageLoop(_, _, _, _, _, _)
PageLoop(remote, limit, page_size, all_nodes, cursor, requests) ==
    IF ~(Len(all_nodes) < limit)
    THEN [ok |-> TRUE, value |-> Prefix(all_nodes, limit), requests |-> requests]
    ELSE LET remaining == Min2(page_size, limit - Len(all_nodes))
             data == graphql(Respond(remote, requests + 1, remaining, cursor))
             extended == all_nodes \o data.value.nodes
         IN  IF ~data.ok
             THEN [ok |-> FALSE, error |-> data.error, requests |-> requests + 1]
             ELSE IF ~data.value.hasNextPage \/ IsNone(data.value.endCursor)
             THEN [ok |-> TRUE, value |-> Prefix(extended, limit),
                   requests |-> requests + 1]
             ELSE PageLoop(remote, limit, page_size, extended,
                           data.value.endCursor, requests + 1)

paginated_query(remote, limit, page_size) ==
    PageLoop(remote, limit, page_size, <<>>, None, 0)

----------------------------------------------------------------------------
(* The fetch helpers: _fetch_pr_data (commands/triage.py 23-43),
   _fetch_review_nodes (commands/review.py 19-40) and _fetch_issues
   (commands/health.py 51-71)

   A helper reads the cache, may query the remote and may write the cache.
   Its outcome is what it returns or raises together with the table it
   leaves, the number of remote requests it issued and the cache.put calls
   it made. *)

\* The raw record of the PR with the number n
RawNode(n) ==
    [number |-> Some(n), title |-> Some("Update parser"),
     createdAt |-> Some(CreatedStamp), author |-> Some([login |-> "alice"])]

\* Rest(v) for the value v of x: a statement `v = x` followed by the code
\* Rest that uses v, x being evaluated once
Bind(x, Rest(_)) == CHOOSE out \in {Rest(v) : v \in {x}} : TRUE

\* [parse_pr_node(n, state) for n in nodes]
RECURSIVE ParseNodes(_, _)
ParseNodes(nodes, state) ==
    IF nodes = <<>> THEN Return(<<>>)
    ELSE Bind(parse_pr_node(RawNode(Head(nodes)), state),
              LAMBDA first : IF ~first.ok THEN first ELSE
         Bind(ParseNodes(Tail(nodes), state),
              LAMBDA rest : IF ~rest.ok THEN rest ELSE
         Return(<<first.value>> \o rest.value)))

\* A faulty CacheLookup: --no-cache is ignored
CacheLookupDespiteNoCache(ctx, store, t, cache_key) ==
    IF ctx.offline THEN get_offline(store, ctx.repo, cache_key)
    ELSE get(store, t, ctx.repo, cache_key, DEFAULT_TTL)

\* The cache lookup every helper starts with: None under --no-cache,
\* get_offline under --offline, get otherwise
CacheLookup(ctx, store, t, cache_key) ==
    IF ctx.no_cache THEN None
    ELSE IF ctx.offline THEN get_offline(store, ctx.repo, cache_key)
    ELSE get(store, t, ctx.repo, cache_key, DEFAULT_TTL)

\* The record of a cache.put call
PutCall(t, repo, key, data) ==
    [op |-> "put", repo |-> repo, key |-> key, data |-> data, at |-> t]

\* A helper that returned without a remote request and without a cache write
Answered(value, store) ==
    [ok |-> TRUE, value |-> value, store |-> store, requests |-> 0, puts |-> <<>>]

\* A helper that raised
Failed(error, store, requests, puts) ==
    [ok |-> FALSE, error |-> error, store |-> store, requests |-> requests,
     puts |-> puts]

\* The raw nodes a helper works with: the cached list, [] when offline, or
\* the list fetched with the limit and written to the cache
FetchNodes(ctx, cache_key, limit, store, t, remote) ==
    Bind(CacheLookup(ctx, store, t, cache_key),
         LAMBDA cached :
             IF ~IsNone(cached) THEN Answered(Val(cached), store)
             ELSE IF ctx.offline THEN Answered(<<>>, store) ELSE
    Bind(paginated_query(remote, limit, DefaultPageSize),
         LAMBDA fetched :
             IF ~fetched.ok
             THEN Failed(fetched.error, store, fetched.requests, <<>>) ELSE
    [ok |-> TRUE, value |-> fetched.value,
     store |-> put(store, t, ctx.repo, cache_key, json_dumps(fetched.value)),
     requests |-> fetched.requests,
     puts |-> <<PutCall(t, ctx.repo, cache_key, fetched.value)>>]))

\* _fetch_pr_data(ctx, state, query, cache_key)
_fetch_pr_data(ctx, state, cache_key, store, t, remote) ==
    Bind(FetchNodes(ctx, cache_key, ctx.limit, store, t, remote),
         LAMBDA nodes : IF ~nodes.ok THEN nodes ELSE
    Bind(ParseNodes(nodes.value, state),
         LAMBDA parsed :
             IF ~parsed.ok
             THEN Failed(parsed.error, nodes.store, nodes.requests, nodes.puts)
             ELSE [nodes EXCEPT !.value = parsed.value]))

\* _fetch_review_nodes(ctx, state, query, cache_key)
_fetch_review_nodes(ctx, cache_key, store, t, remote) ==
    FetchNodes(ctx, cache_key, ctx.limit, store, t, remote)

\* _fetch_issues(ctx)
_fetch_issues(ctx, store, t, remote) ==
    FetchNodes(ctx, "issues", Min2(ctx.limit, 50), store, t, remote)

----------------------------------------------------------------------------
(* Bounds and input sets of the fetch specification: invocations of the
   fetch helpers and calls of paginated_query that share one cache *)

\* The cache.put calls of a behaviour
MaxFetchPuts == 1

\* The values of --limit
FetchLimits == {1, 2}

FetchRepo == "o/a"

\* The PRs (or issues) the repository holds on the remote side
RepoNodes == <<1, 2, 3>>

\* The remote serves the nodes, or fails at the first request
FetchRemotes ==
    {[nodes |-> RepoNodes, fail_at |-> 0, failure |-> "none"]}
    \cup [nodes : {RepoNodes}, fail_at : {1}, failure : FailureKinds]

FetchContexts ==
    [repo : {FetchRepo}, limit : FetchLimits, offline : BOOLEAN, no_cache : BOOLEAN]

\* The instants at which a helper may run: a cached list is fresh, as old
\* as the TTL, or expired
FetchTimes == {0, DEFAULT_TTL, DEFAULT_TTL + 1}

\* The state labels and cache keys _fetch_pr_data is called with
PRQueries == {<<"MERGED", "merged_prs">>, <<"CLOSED", "closed_prs">>}

\* Connections of 120 and of 50 nodes; the query fails at none of the
\* requests, at the first or at the second
PageRemotes ==
    [nodes : {[i \in 1..120 |-> i], [i \in 1..50 |-> i]},
     fail_at : {0}, failure : {"none"}]
    \cup [nodes : {[i \in 1..120 |-> i]}, fail_at : {1, 2}, failure : FailureKinds]

PageLimits == {0, 1, 50, 51, 100}

InitFetch ==
    /\ pc = "idle"
    /\ fn = "ghscope"
    /\ args = <<>>
    /\ result = <<>>
    /\ FreshCache

\* What an invocation leaves in the variables
Invoked(name, arguments, outcome) ==
    \E out \in {outcome} :
    /\ Len(hist) + Len(out.puts) <= MaxFetchPuts
    /\ fn' = name
    /\ args' = arguments
    /\ result' = out
    /\ cache' = out.store
    /\ hist' = hist \o out.puts
    /\ pc' = "done"
    /\ UNCHANGED clock

FetchPRData ==
    /\ pc = "idle"
    /\ \E ctx \in FetchContexts, q \in PRQueries, remote \in FetchRemotes :
           Invoked("_fetch_pr_data",
                   [ctx |-> ctx, state |-> q[1], cache_key |-> q[2], remote |-> remote],
                   _fetch_pr_data(ctx, q[1], q[2], cache, clock, remote))

FetchReviewNodes ==
    /\ pc = "idle"
    /\ \E ctx \in FetchContexts, remote \in FetchRemotes :
           Invoked("_fetch_review_nodes",
                   [ctx |-> ctx, cache_key |-> "merged_prs_reviews", remote |-> remote],
                   _fetch_review_nodes(ctx, "merged_prs_reviews", cache, clock, remote))

FetchIssues ==
    /\ pc = "idle"
    /\ \E ctx \in FetchContexts, remote \in FetchRemotes :
           Invoked("_fetch_issues",
                   [ctx |-> ctx, cache_key |-> "issues", remote |-> remote],
                   _fetch_issues(ctx, cache, clock, remote))

\* A direct call of paginated_query; it does not touch the cache
CallPaginatedQuery ==
    /\ pc = "idle"
    /\ \E remote \in PageRemotes, limit \in PageLimits :
           /\ args' = [remote |-> remote, limit |-> limit]
           /\ result' = paginated_query(remote, limit, DefaultPageSize)
    /\ fn' = "paginated_query"
    /\ pc' = "done"
    /\ UNCHANGED <<cache, clock, hist>>

\* Time passes between two invocations
FetchWait ==
    /\ pc = "idle"
    /\ \E t \in FetchTimes : t > clock /\ clock' = t
    /\ UNCHANGED <<pc, fn, args, result, cache, hist>>

\* The caller has taken what the call returned or raised
FetchExit ==
    /\ pc = "done"
    /\ pc' = "idle"
    /\ fn' = "ghscope"
    /\ args' = <<>>
    /\ result' = <<>>
    /\ UNCHANGED <<cache, clock, hist>>

NextFetch ==
    \/ FetchPRData \/ FetchReviewNodes \/ FetchIssues \/ CallPaginatedQuery
    \/ FetchWait \/ FetchExit

SpecFetch == InitFetch /\ [][NextFetch]_vars

FetchHelpers == {"_fetch_pr_data", "_fetch_review_nodes", "_fetch_issues"}

\* C17: --limit is the maximum number of items fetched: across any sequence
\* of invocations that share the cache and use different ctx.limit values,
\* _fetch_pr_data never returns more than ctx.limit summaries, and
\* paginated_query never returns more than limit nodes.
C17_LimitRespected ==
    /\ (pc = "done" /\ fn = "_fetch_pr_data" /\ result.ok)
           => Len(result.value) <= args.ctx.limit
    /\ (pc = "done" /\ fn = "paginated_query" /\ result.ok)
           => Len(result.value) <= args.limit

\* The remote failed at a request the call issued
FetchFailed(arguments, outcome) ==
    arguments.remote.fail_at > 0 /\ outcome.requests >= arguments.remote.fail_at

\* C18: a fetch failure is never retried and never yields a partial result:
\* when the remote query fails on any page, paginated_query issues no further
\* request and raises GitHubAPIError, discarding the pages already fetched,
\* and the calling fetch helper propagates the error leaving the cache entry
\* for that key unchanged.
C18_FailureNotRetried ==
    [][(pc' = "done" /\ fn' \in FetchHelpers \cup {"paginated_query"}
            /\ FetchFailed(args', result'))
           => /\ ~result'.ok
              /\ result'.error = "GitHubAPIError"
              /\ result'.requests = args'.remote.fail_at
              /\ cache' = cache]_vars

----------------------------------------------------------------------------
(* The report computations: fetch_triage_data (commands/triage.py 46-90),
   fetch_assess_report (commands/assess.py 53-70), fetch_contribs_report
   (commands/contribs.py 21-50), fetch_review_report (commands/review.py
   43-49), fetch_health_report (commands/health.py 74-159) and run_overview
   (commands/overview.py 42-114)

   A report is modelled by what it fetches: the cache rows it reads and
   writes, the remote requests it issues, and the sizes of the lists it
   fetched, which its analysis starts from.  The outcome of a computation has
   the shape of a helper's outcome. *)

\* The GraphQL documents of core/queries.py, and the viewer query of
\* get_viewer_login
Queries ==
    {"MERGED_PRS_PAGE", "CLOSED_PRS_PAGE", "OPEN_PRS_PAGE",
     "MERGED_PRS_WITH_REVIEWS", "OPEN_PRS_WITH_REVIEWS", "ISSUE_TIMELINE",
     "COMMIT_HISTORY", "REPO_OVERVIEW", "USER_OPEN_PRS", "VIEWER"}

\* What gh does with the requests of one query during an invocation: world
\* names the query that fails, if any, and the nodes every connection holds
RemoteFor(world, query) ==
    [nodes |-> world.nodes,
     fail_at |-> IF world.fail = query THEN 1 ELSE 0,
     failure |-> world.failure]

\* graphql(query, variables) for a query answered in one request with data
Ask(world, query, data) ==
    graphql(IF world.fail = query THEN [kind |-> world.failure]
            ELSE [kind |-> "ok", data |-> data])

\* The repository object REPO_OVERVIEW returns
RepositoryObject(world) ==
    [openPRs |-> Some([totalCount |-> Some(Len(world.nodes))])]

\* The outcome `second` of a step that ran after the step with the outcome
\* `first`: the requests and the cache.put calls of both
After(first, second) ==
    [second EXCEPT !.requests = first.requests + @, !.puts = first.puts \o @]

\* graphql(REPO_OVERVIEW, ...), data.get("repository", data) and cache.put
QueryOverview(ctx, store, t, world) ==
    LET data == Ask(world, "REPO_OVERVIEW",
                    [repository |-> Some(RepositoryObject(world))])
        repository == Val(Get(data.value, "repository", Some(data.value)))
    IN  IF ~data.ok THEN Failed(data.error, store, 1, <<>>)
        ELSE [ok |-> TRUE, value |-> repository,
              store |-> put(store, t, ctx.repo, "overview",
                            json_dumps_object(repository)),
              requests |-> 1,
              puts |-> <<PutCall(t, ctx.repo, "overview", repository)>>]

\* _fetch_overview(ctx)
_fetch_overview(ctx, store, t, world) ==
    LET cached == CacheLookup(ctx, store, t, "overview")
    IN  IF ~IsNone(cached) THEN Answered(Val(cached), store)
        ELSE IF ctx.offline THEN Answered(EmptyDict, store)
        ELSE QueryOverview(ctx, store, t, world)

\* The overview_data of fetch_triage_data and fetch_health_report: the
\* cached object, None when offline, or the object fetched and cached
OverviewData(ctx, store, t, world) ==
    LET cached == CacheLookup(ctx, store, t, "overview")
        queried == QueryOverview(ctx, store, t, world)
    IN  IF ~IsNone(cached) THEN Answered(cached, store)
        ELSE IF ctx.offline THEN Answered(None, store)
        ELSE IF ~queried.ok THEN queried
        ELSE [queried EXCEPT !.value = Some(@)]

\* overview_data.get("openPRs", {}).get("totalCount", 0) if overview_data
\* is neither None nor empty, else 0
TotalOpen(overview_data) ==
    IF IsNone(overview_data) \/ Val(overview_data) = EmptyDict THEN 0
    ELSE Val(Get(Val(Get(Val(overview_data), "openPRs", Some(EmptyDict))),
                 "totalCount", Some(0)))

\* fetch_triage_data(ctx)
fetch_triage_data(ctx, store, t, world) ==
    Bind(_fetch_pr_data(ctx, "MERGED", "merged_prs", store, t,
                        RemoteFor(world, "MERGED_PRS_PAGE")),
         LAMBDA merged : IF ~merged.ok THEN merged ELSE
    Bind(After(merged, _fetch_pr_data(ctx, "CLOSED", "closed_prs", merged.store, t,
                                      RemoteFor(world, "CLOSED_PRS_PAGE"))),
         LAMBDA closed : IF ~closed.ok THEN closed ELSE
    Bind(After(closed, OverviewData(ctx, closed.store, t, world)),
         LAMBDA overview_data : IF ~overview_data.ok THEN overview_data ELSE
    [overview_data EXCEPT
        !.value = [total_merged |-> Len(merged.value),
                   total_closed |-> Len(closed.value),
                   total_open |-> TotalOpen(overview_data.value)]])))

\* get_viewer_login()
get_viewer_login(store, world) ==
    LET data == Ask(world, "VIEWER", [viewer |-> [login |-> "alice"]])
    IN  IF ~data.ok THEN Failed(data.error, store, 1, <<>>)
        ELSE [ok |-> TRUE, value |-> data.value.viewer.login, store |-> store,
              requests |-> 1, puts |-> <<>>]

\* [n for n in nodes if n.get("number")]
PRNodes(nodes) == SelectSeq(nodes, LAMBDA n : n # 0)

\* _fetch_user_open_prs(ctx, user)
_fetch_user_open_prs(ctx, user, store, t, world) ==
    LET cache_key == "user_open_prs_" \o user
        cached == CacheLookup(ctx, store, t, cache_key)
        data == Ask(world, "USER_OPEN_PRS", [search |-> [nodes |-> world.nodes]])
        pr_nodes == PRNodes(data.value.search.nodes)
        nodes == IF ~IsNone(cached) THEN Answered(Val(cached), store)
                 ELSE IF ctx.offline THEN Answered(<<>>, store)
                 ELSE IF ~data.ok THEN Failed(data.error, store, 1, <<>>)
                 ELSE [ok |-> TRUE, value |-> pr_nodes,
                       store |-> put(store, t, ctx.repo, cache_key,
                                     json_dumps(pr_nodes)),
                       requests |-> 1,
                       puts |-> <<PutCall(t, ctx.repo, cache_key, pr_nodes)>>]
        parsed == ParseNodes(nodes.value, "OPEN")
    IN  IF ~nodes.ok THEN nodes
        ELSE IF ~parsed.ok
        THEN Failed(parsed.error, nodes.store, nodes.requests, nodes.puts)
        ELSE [nodes EXCEPT !.value = parsed.value]

\* fetch_assess_report(ctx)
fetch_assess_report(ctx, store, t, world) ==
    Bind(get_viewer_login(store, world),
         LAMBDA user : IF ~user.ok THEN user ELSE
    Bind(After(user, _fetch_user_open_prs(ctx, user.value, user.store, t, world)),
         LAMBDA user_prs : IF ~user_prs.ok THEN user_prs ELSE
    Bind(After(user_prs, _fetch_pr_data(ctx, "MERGED", "merged_prs", user_prs.store,
                                        t, RemoteFor(world, "MERGED_PRS_PAGE"))),
         LAMBDA merged : IF ~merged.ok THEN merged ELSE
    Bind(After(merged, _fetch_pr_data(ctx, "CLOSED", "closed_prs", merged.store, t,
                                      RemoteFor(world, "CLOSED_PRS_PAGE"))),
         LAMBDA closed : IF ~closed.ok THEN closed ELSE
    [closed EXCEPT
        !.value = [user |-> user.value, assessments |-> Len(user_prs.value)]]))))

\* fetch_contribs_report(ctx)
fetch_contribs_report(ctx, store, t, world) ==
    Bind(_fetch_pr_data(ctx, "MERGED", "merged_prs", store, t,
                        RemoteFor(world, "MERGED_PRS_PAGE")),
         LAMBDA merged : IF ~merged.ok THEN merged ELSE
    Bind(After(merged, _fetch_pr_data(ctx, "CLOSED", "closed_prs", merged.store, t,
                                      RemoteFor(world, "CLOSED_PRS_PAGE"))),
         LAMBDA closed : IF ~closed.ok THEN closed ELSE
    Bind(After(closed, _fetch_pr_data(ctx, "OPEN", "open_prs", closed.store, t,
                                      RemoteFor(world, "OPEN_PRS_PAGE"))),
         LAMBDA open_prs : IF ~open_prs.ok THEN open_prs ELSE
    [open_prs EXCEPT
        !.value = [all_prs |-> Len(merged.value) + Len(closed.value)
                                   + Len(open_prs.value)]])))

\* fetch_review_report(ctx)
fetch_review_report(ctx, store, t, world) ==
    Bind(_fetch_review_nodes(ctx, "merged_prs_reviews", store, t,
                             RemoteFor(world, "MERGED_PRS_WITH_REVIEWS")),
         LAMBDA merged_nodes : IF ~merged_nodes.ok THEN merged_nodes ELSE
    Bind(After(merged_nodes,
               _fetch_review_nodes(ctx, "open_prs_reviews", merged_nodes.store, t,
                                   RemoteFor(world, "OPEN_PRS_WITH_REVIEWS"))),
         LAMBDA open_nodes : IF ~open_nodes.ok THEN open_nodes ELSE
    [open_nodes EXCEPT
        !.value = [merged_nodes |-> Len(merged_nodes.value),
                   open_nodes |-> Len(open_nodes.value)]]))

\* _fetch_commits(ctx)
_fetch_commits(ctx, store, t, world) ==
    LET cached == CacheLookup(ctx, store, t, "commits")
        data == Ask(world, "COMMIT_HISTORY", [nodes |-> world.nodes])
    IN  IF ~IsNone(cached) THEN Answered(Val(cached), store)
        ELSE IF ctx.offline THEN Answered(<<>>, store)
        ELSE IF ~data.ok THEN Failed(data.error, store, 1, <<>>)
        ELSE [ok |-> TRUE, value |-> data.value.nodes,
              store |-> put(store, t, ctx.repo, "commits",
                            json_dumps(data.value.nodes)),
              requests |-> 1,
              puts |-> <<PutCall(t, ctx.repo, "commits", data.value.nodes)>>]

\* fetch_health_report(ctx)
fetch_health_report(ctx, store, t, world) ==
    Bind(_fetch_commits(ctx, store, t, world),
         LAMBDA commits : IF ~commits.ok THEN commits ELSE
    Bind(After(commits, _fetch_issues(ctx, commits.store, t,
                                      RemoteFor(world, "ISSUE_TIMELINE"))),
         LAMBDA issues : IF ~issues.ok THEN issues ELSE
    Bind(After(issues, _fetch_pr_data(ctx, "MERGED", "merged_prs", issues.store, t,
                                      RemoteFor(world, "MERGED_PRS_PAGE"))),
         LAMBDA merged_prs : IF ~merged_prs.ok THEN merged_prs ELSE
    Bind(After(merged_prs, OverviewData(ctx, merged_prs.store, t, world)),
         LAMBDA overview_data : IF ~overview_data.ok THEN overview_data ELSE
    [overview_data EXCEPT
        !.value = [commits |-> Len(commits.value),
                   issues |-> Len(issues.value),
                   merged_prs |-> Len(merged_prs.value)]]))))

\* The health section of run_overview: _fetch_commits and _fetch_pr_data
OverviewHealth(ctx, store, t, world) ==
    Bind(_fetch_commits(ctx, store, t, world),
         LAMBDA commits : IF ~commits.ok THEN commits ELSE
    Bind(After(commits, _fetch_pr_data(ctx, "MERGED", "merged_prs", commits.store, t,
                                       RemoteFor(world, "MERGED_PRS_PAGE"))),
         LAMBDA merged_prs : IF ~merged_prs.ok THEN merged_prs ELSE
    [merged_prs EXCEPT
        !.value = [commits |-> Len(commits.value),
                   merged_prs |-> Len(merged_prs.value)]]))

\* run_overview(ctx): the overview is fetched outside any try; the triage
\* and the health section are each computed inside try/except Exception.
\* The value is the dict handed to print_json, with `failed` the sections
\* whose fetch raised.
run_overview(ctx, store, t, world) ==
    Bind(_fetch_overview(ctx, store, t, world),
         LAMBDA overview : IF ~overview.ok THEN overview ELSE
    Bind(After(overview, fetch_triage_data(ctx, overview.store, t, world)),
         LAMBDA triage :
    Bind(After(triage, OverviewHealth(ctx, triage.store, t, world)),
         LAMBDA health :
    [ok |-> TRUE,
     value |-> [overview |-> overview.value,
                triage |-> IF triage.ok THEN Some(triage.value) ELSE None,
                health |-> IF health.ok THEN Some(health.value) ELSE None],
     failed |-> {s \in {"triage"} : ~triage.ok} \cup {s \in {"health"} : ~health.ok},
     store |-> health.store,
     requests |-> health.requests,
     puts |-> health.puts])))

----------------------------------------------------------------------------
(* Bounds and input sets of the report specification: invocations of the
   six commands that share one cache *)

\* The cache.put calls of a behaviour
MaxReportPuts == 4

ReportContexts ==
    [repo : {FetchRepo}, limit : {2}, offline : BOOLEAN, no_cache : BOOLEAN]

\* gh answers every query of the invocation
Healthy == [nodes |-> RepoNodes, fail |-> "none", failure |-> "none"]

\* gh answers every query of a dashboard run, or fails every request of one
\* query with a non-zero exit status
Worlds ==
    {Healthy} \cup [nodes : {RepoNodes}, fail : Queries, failure : {"exit_nonzero"}]

InitReports ==
    /\ pc = "idle"
    /\ fn = "ghscope"
    /\ args = <<>>
    /\ result = <<>>
    /\ FreshCache

\* What the invocation of a command leaves in the variables
Reported(name, ctx, world, outcome) ==
    \E out \in {outcome} :
    /\ Len(hist) + Len(out.puts) <= MaxReportPuts
    /\ fn' = name
    /\ args' = [ctx |-> ctx, world |-> world]
    /\ result' = out
    /\ cache' = out.store
    /\ hist' = hist \o out.puts
    /\ pc' = "done"
    /\ UNCHANGED clock

RunTriage ==
    /\ pc = "idle"
    /\ \E ctx \in ReportContexts, world \in {Healthy} :
           Reported("triage", ctx, world, fetch_triage_data(ctx, cache, clock, world))

RunAssess ==
    /\ pc = "idle"
    /\ \E ctx \in ReportContexts, world \in {Healthy} :
           Reported("assess", ctx, world, fetch_assess_report(ctx, cache, clock, world))

RunContribs ==
    /\ pc = "idle"
    /\ \E ctx \in ReportContexts, world \in {Healthy} :
           Reported("contribs", ctx, world,
                    fetch_contribs_report(ctx, cache, clock, world))

RunReview ==
    /\ pc = "idle"
    /\ \E ctx \in ReportContexts, world \in {Healthy} :
           Reported("review", ctx, world, fetch_review_report(ctx, cache, clock, world))

RunHealth ==
    /\ pc = "idle"
    /\ \E ctx \in ReportContexts, world \in {Healthy} :
           Reported("health", ctx, world, fetch_health_report(ctx, cache, clock, world))

RunOverview ==
    /\ pc = "idle"
    /\ \E ctx \in ReportContexts, world \in Worlds :
           Reported("overview", ctx, world, run_overview(ctx, cache, clock, world))

\* Time passes between two invocations until the cached rows have expired
ReportWait ==
    /\ pc = "idle"
    /\ clock = 0
    /\ clock' = DEFAULT_TTL + 1
    /\ UNCHANGED <<pc, fn, args, result, cache, hist>>

NextReports ==
    \/ RunTriage \/ RunAssess \/ RunContribs \/ RunReview \/ RunHealth
    \/ RunOverview \/ ReportWait \/ FetchExit

SpecReports == InitReports /\ [][NextReports]_vars

\* C14: in run_overview a fetch failure in any one section (repository
\* overview, triage, health) never aborts the run: the run ends normally,
\* the sections whose fetch raised are omitted from the output and every
\* other section is output.
C14_SectionFailureNeverAborts ==
    (pc = "done" /\ fn = "overview")
        => /\ result.ok
           /\ ~IsNone(result.value.triage) <=> "triage" \notin result.failed
           /\ ~IsNone(result.value.health) <=> "health" \notin result.failed

Reports == {"triage", "assess", "contribs", "review", "health", "overview"}

\* The lookup of the key misses: the cache is bypassed or holds no row
Missed(ctx, store, key) == ctx.no_cache \/ <<ctx.repo, key>> \notin DOMAIN store

\* What the report shows for the items of a key that missed is empty
EmptyWhereMissed(name, ctx, store, value) ==
    /\ (name = "triage" /\ Missed(ctx, store, "merged_prs")) => value.total_merged = 0
    /\ (name = "triage" /\ Missed(ctx, store, "closed_prs")) => value.total_closed = 0
    /\ (name = "triage" /\ Missed(ctx, store, "overview")) => value.total_open = 0
    /\ (name = "assess" /\ Missed(ctx, store, "user_open_prs_alice"))
           => value.assessments = 0
    /\ (name = "contribs" /\ Missed(ctx, store, "merged_prs")
            /\ Missed(ctx, store, "closed_prs") /\ Missed(ctx, store, "open_prs"))
           => value.all_prs = 0
    /\ (name = "review" /\ Missed(ctx, store, "merged_prs_reviews"))
           => value.merged_nodes = 0
    /\ (name = "review" /\ Missed(ctx, store, "open_prs_reviews"))
           => value.open_nodes = 0
    /\ (name = "health" /\ Missed(ctx, store, "commits")) => value.commits = 0
    /\ (name = "health" /\ Missed(ctx, store, "issues")) => value.issues = 0
    /\ (name = "health" /\ Missed(ctx, store, "merged_prs")) => value.merged_prs = 0
    /\ (name = "overview" /\ Missed(ctx, store, "overview"))
           => value.overview = EmptyDict

\* C15: under --offline no report computation (triage, assess, contribs,
\* review, health, overview) issues a remote query, none of the fetch
\* helpers it calls writes to the cache, and a cache miss yields an empty
\* result instead of a fetch.
C15_OfflineUsesCacheOnly ==
    [][(pc' = "done" /\ fn' \in Reports /\ args'.ctx.offline)
           => /\ result'.requests = 0
              /\ result'.puts = <<>>
              /\ cache' = cache
              /\ result'.ok
              /\ EmptyWhereMissed(fn', args'.ctx, cache, result'.value)]_vars

----------------------------------------------------------------------------
(* Bounds and input sets of the author-history specification: calls of
   compute_merge_probability with long histories of the target's author *)

\* A historical list holds at most MaxAuthorPRs PRs
MaxAuthorPRs == 7

\* n PRs of the category by alice and, for at > 0, one PR by bob at the
\* position at
AuthorHistory(n, at, category) ==
    [i \in 1..(IF at > 0 THEN n + 1 ELSE n) |->
        [author |-> IF i = at THEN "bob" ELSE "alice", category |-> category]]

\* The histories of at most MaxAuthorPRs PRs
AuthorHistories ==
    {AuthorHistory(n, at, category) :
        n \in 0..MaxAuthorPRs, at \in 0..MaxAuthorPRs, category \in ProbCategories}

\* An XS and an XL target by alice, with and without reviews, of the ages
\* on both sides of the 7, 30 and 60 day boundaries
AuthorTargets ==
    [author : {"alice"}, category : {"fix"},
     additions : {10, 501}, deletions : {0},
     review_count : {0, 2},
     age_hours : {24, 168, 720, 721, 1440, 1441}]

InitAuthor ==
    /\ pc = "call"
    /\ fn = "compute_merge_probability"
    /\ \E target \in AuthorTargets, merged \in AuthorHistories,
          closed \in AuthorHistories :
           /\ Len(merged) <= MaxAuthorPRs
           /\ Len(closed) <= MaxAuthorPRs
           /\ args = [target |-> target, merged |-> merged, closed |-> closed]
    /\ result = <<>>
    /\ FreshCache

NextAuthor == CallMergeProbability

SpecAuthor == InitAuthor /\ [][NextAuthor]_vars

----------------------------------------------------------------------------
(* The score of section 4.6, as a sum of its terms *)

\* x / d truncated toward zero, for d > 0
TruncDiv(x, d) == IF x >= 0 THEN x \div d ELSE -((-x) \div d)

\* The merged PRs of the target's category
CategoryMerged ==
    Cardinality({i \in 1..Len(args.merged) :
                    args.merged[i].category = args.target.category})

\* Size bonus of the target: XS +8, S +5, M 0, L -5, XL -10
SizeTerm ==
    LET total == args.target.additions + args.target.deletions
    IN  IF total <= 10 THEN 8 ELSE IF total <= 50 THEN 5
        ELSE IF total <= 200 THEN 0 ELSE IF total <= 500 THEN -5 ELSE -10

\* +10 with reviews, -5 without
ReviewTerm == IF args.target.review_count > 0 THEN 10 ELSE -5

\* -15 above 60 days, -8 above 30 days, 0 otherwise
AgeTerm ==
    IF args.target.age_hours > 60 * 24 THEN -15
    ELSE IF args.target.age_hours > 30 * 24 THEN -8
    ELSE 0

\* min(3 m, 15) - min(2 c, 10) for m merged and c closed PRs of the author
AuthorTerm ==
    Min2(3 * AuthorCount(args.merged), 15) - Min2(2 * AuthorCount(args.closed), 10)

\* 50 + (base_rate - 1/2) * 30 + (cat_rate - 1/2) * 15 (if with_category)
\* + author_term + size + reviews + age_term, truncated toward zero and
\* clamped to 0..100; the sum is computed over the denominator
\* 2 * total * cat_total
ExpectedScore(with_category, author_term, age_term) ==
    LET total == Len(args.merged) + Len(args.closed)
        td == IF total > 0 THEN total ELSE 1
        base_num == IF total > 0 THEN (2 * Len(args.merged) - total) * 30 ELSE 0
        cd == IF with_category THEN CategoryCount ELSE 1
        cat_num == IF with_category
                   THEN (2 * CategoryMerged - CategoryCount) * 15 ELSE 0
        whole == 50 + author_term + SizeTerm + ReviewTerm + age_term
    IN  Max2(0, Min2(100, TruncDiv(whole * 2 * td * cd + base_num * cd + cat_num * td,
                                   2 * td * cd)))

\* C21: the author-history terms of compute_merge_probability apply
\* independently and are capped: the score gains min(3 m, 15) for the m
\* historical merged PRs of the target's author and loses min(2 c, 10) for
\* the c historical closed PRs of that author, both in the same evaluation.
C21_AuthorTermsCapped ==
    ProbDone => result.score = ExpectedScore(CategoryCount >= 3, AuthorTerm, AgeTerm)

\* A call with six merged and six closed PRs of the author, where both caps
\* bind and neither the lower nor the upper clamp does
C21_Witness ==
    /\ ProbDone
    /\ AuthorCount(args.merged) >= 6
    /\ AuthorCount(args.closed) >= 6
    /\ result.score > 0
    /\ result.score < 100

\* The age factors of the returned list, in order
AgeFactors ==
    SelectSeq(result.factors, LAMBDA f : f.kind \in {"stale", "old", "recent"})

\* The kinds of a list of factors
KindsOf(factors) == [i \in 1..Len(factors) |-> factors[i].kind]

\* C22: the age term of compute_merge_probability follows four bands of
\* days-open = age_hours / 24: more than 60 subtracts 15 and adds a factor;
\* more than 30 and at most 60 subtracts 8 and adds a factor; from 7 to 30
\* inclusive changes neither the score nor the factor list; less than 7
\* leaves the score unchanged and adds a "recent" factor.
C22_AgeBands ==
    ProbDone =>
        LET hours == args.target.age_hours
            expected(age_term) ==
                ExpectedScore(CategoryCount >= 3, AuthorTerm, age_term)
        IN  /\ hours > 60 * 24
                => result.score = expected(-15) /\ KindsOf(AgeFactors) = <<"stale">>
            /\ (hours > 30 * 24 /\ hours <= 60 * 24)
                => result.score = expected(-8) /\ KindsOf(AgeFactors) = <<"old">>
            /\ (hours >= 7 * 24 /\ hours <= 30 * 24)
                => result.score = expected(0) /\ AgeFactors = <<>>
            /\ hours < 7 * 24
                => result.score = expected(0) /\ KindsOf(AgeFactors) = <<"recent">>

\* A call for a PR open for exactly 30 days: no penalty and no age factor,
\* with a score the clamp does not hide
C22_Witness ==
    /\ ProbDone
    /\ args.target.age_hours = 30 * 24
    /\ AgeFactors = <<>>
    /\ result.score > 0
    /\ result.score < 100

\* C23: compute_merge_probability applies the category adjustment
\* (cat_rate - 0.5) * 15 and its factor if and only if at least 3 historical
\* PRs (merged plus closed) have the target's category; with fewer than 3
\* the score is the sum without a category term, which depends on the sizes
\* of the lists and on the authors only, so that which of the PRs of that
\* category are merged or closed does not change it.
C23_CategoryFromThree ==
    ProbDone =>
        /\ HasFactor("category_rate") <=> CategoryCount >= 3
        /\ CategoryCount >= 3
               => result.score = ExpectedScore(TRUE, AuthorTerm, AgeTerm)
        /\ CategoryCount < 3
               => result.score = ExpectedScore(FALSE, AuthorTerm, AgeTerm)

\* A call with exactly two historical PRs of the target's category, both
\* merged, next to a closed PR of another category
C23_Witness ==
    /\ ProbDone
    /\ CategoryCount = 2
    /\ CategoryMerged = 2
    /\ Len(args.closed) > 0
    /\ ~HasFactor("category_rate")
    /\ result.score > 0
    /\ result.score < 100

----------------------------------------------------------------------------
(* The shape of the clusters of detect_batch_merges *)

\* The PR numbers of a cluster
ClusterNumbers(c) == {c.prs[k] : k \in 1..Len(c.prs)}

\* The merge time of the PR of the call with that number (a PR's number is
\* its place in the input list)
MergedAtOf(number) == Val(args.prs[number].merged_at)

\* C24: the clusters detect_batch_merges returns are pairwise disjoint and in
\* chronological order of their run starts, the end_time of each being no
\* later than the start_time of the next; within a cluster the PR numbers
\* are in ascending merge-time order, count is the number of PR numbers and
\* start_time <= end_time.
C24_ClustersOrdered ==
    BatchDone =>
        /\ \A i, j \in 1..Len(result) :
               i < j => ClusterNumbers(result[i]) \cap ClusterNumbers(result[j]) = {}
        /\ \A i \in 1..(Len(result) - 1) :
               /\ result[i].start_time <= result[i + 1].start_time
               /\ result[i].end_time <= result[i + 1].start_time
        /\ \A i \in 1..Len(result) :
               /\ result[i].count = Len(result[i].prs)
               /\ Cardinality(ClusterNumbers(result[i])) = result[i].count
               /\ result[i].start_time <= result[i].end_time
               /\ result[i].start_time = MergedAtOf(result[i].prs[1])
               /\ result[i].end_time = MergedAtOf(result[i].prs[result[i].count])
               /\ \A k, l \in 1..Len(result[i].prs) :
                      k < l => MergedAtOf(result[i].prs[k])
                                   <= MergedAtOf(result[i].prs[l])

\* A call has returned two clusters, the second starting later than the first
\* ends, from an input list that was not in merge-time order
C24_Witness ==
    /\ BatchDone
    /\ Len(result) = 2
    /\ result[1].end_time < result[2].start_time
    /\ \E i \in 1..(Len(args.prs) - 1) :
           Val(args.prs[i].merged_at) > Val(args.prs[i + 1].merged_at)

----------------------------------------------------------------------------
(* compute_contributor_stats (analysis.py 299-337) *)

\* The place of login among the entries of the authors dict, 0 when it has
\* none (a dict keeps its keys in insertion order)
AuthorIndex(authors, login) ==
    IF \E i \in 1..Len(authors) : authors[i].login = login
    THEN CHOOSE i \in 1..Len(authors) : authors[i].login = login
    ELSE 0

\* defaultdict(lambda: {"merged": 0, "closed": 0, "open": 0, "first": None})
NewAuthor(login) ==
    [login |-> login, merged |-> 0, closed |-> 0, open |-> 0, first |-> None]

\* A faulty Earlier: the later of the two creation times is kept
Later(first, created_at) ==
    IF IsNone(first) \/ created_at > Val(first) THEN Some(created_at) ELSE first

\* if d["first"] is None or pr.created_at < d["first"]: d["first"] = pr.created_at
Earlier(first, created_at) ==
    IF IsNone(first) \/ created_at < Val(first) THEN Some(created_at) ELSE first

\* d = authors[pr.author]; d[counter] += 1; the update of d["first"]
CountPR(authors, pr, counter) ==
    LET known == IF AuthorIndex(authors, pr.author) = 0
                 THEN Append(authors, NewAuthor(pr.author))
                 ELSE authors
        i == AuthorIndex(known, pr.author)
        d == known[i]
    IN  [known EXCEPT ![i] =
            [d EXCEPT ![counter] = d[counter] + 1,
                      !.first = Earlier(d.first, pr.created_at)]]

\* for pr in prs: ... of one of the three lists
RECURSIVE CountPRs(_, _, _)
CountPRs(authors, prs, counter) ==
    IF prs = <<>> THEN authors
    ELSE CountPRs(CountPR(authors, Head(prs), counter), Tail(prs), counter)

\* round(x, 1) of a non-negative x, in tenths: the nearest tenth, a tie
\* going to the even one. Python rounds the double nearest to x: where that
\* double is not x itself (0.05, 0.45) an exact tie is none for Python, and
\* the input sets hold no such value
round_tenths(x) ==
    LET twenty == (x.n * 20) \div x.d
        exact == (x.n * 20) % x.d = 0
        down == twenty \div 2
    IN  IF twenty % 2 = 0 THEN down
        ELSE IF ~exact THEN down + 1
        ELSE IF down % 2 = 0 THEN down ELSE down + 1

\* A faulty merge_rate_of: open PRs count in the denominator
merge_rate_of_all(d) ==
    LET total == d.merged + d.closed + d.open
        rate == IF total > 0 THEN Rat(d.merged, total) ELSE RatInt(0)
    IN  Rat(round_tenths(RatMulInt(rate, 100)), 10)

\* total = d["merged"] + d["closed"]; rate = d["merged"] / total if total > 0
\* else 0; round(rate * 100, 1)
merge_rate_of(d) ==
    LET total == d.merged + d.closed
        rate == IF total > 0 THEN Rat(d.merged, total) ELSE RatInt(0)
    IN  Rat(round_tenths(RatMulInt(rate, 100)), 10)

\* ContributorStats(login=login, merged_count=..., ..., merge_rate=...)
ContributorStatsOf(d) ==
    [login |-> d.login, merged_count |-> d.merged, closed_count |-> d.closed,
     open_count |-> d.open, first_contribution |-> d.first,
     merge_rate |-> merge_rate_of(d)]

\* stats.sort(key=lambda s: s.merged_count, reverse=True) is stable: s goes
\* behind every entry already placed whose merged_count is not less
RECURSIVE InsertByMergedCount(_, _)
InsertByMergedCount(sorted, s) ==
    IF sorted = <<>> THEN <<s>>
    ELSE IF Head(sorted).merged_count >= s.merged_count
         THEN <<Head(sorted)>> \o InsertByMergedCount(Tail(sorted), s)
         ELSE <<s>> \o sorted

RECURSIVE SortByMergedCountFrom(_, _)
SortByMergedCountFrom(sorted, rest) ==
    IF rest = <<>> THEN sorted
    ELSE SortByMergedCountFrom(InsertByMergedCount(sorted, Head(rest)), Tail(rest))

compute_contributor_stats(merged, closed, open_prs) ==
    LET authors ==
            CountPRs(CountPRs(CountPRs(<<>>, merged, "merged"), closed, "closed"),
                     open_prs, "open")
        stats == [i \in 1..Len(authors) |-> ContributorStatsOf(authors[i])]
    IN  SortByMergedCountFrom(<<>>, stats)

----------------------------------------------------------------------------
(* Bounds and input sets of the contributor specification *)

\* The longest of the three input lists
MaxContribPRs == 2

\* What compute_contributor_stats reads of a PR: its author and the minute
\* it was created
ContribPRs == [author : {"alice", "bob"}, created_at : {0, 1}]

ContribLists == UNION {[1..k -> ContribPRs] : k \in 0..MaxContribPRs}

InitContrib ==
    /\ pc = "call"
    /\ fn = "compute_contributor_stats"
    /\ args \in [merged : ContribLists, closed : ContribLists, open_prs : ContribLists]
    /\ result = <<>>
    /\ FreshCache

CallContributorStats ==
    /\ pc = "call"
    /\ fn = "compute_contributor_stats"
    /\ result' = compute_contributor_stats(args.merged, args.closed, args.open_prs)
    /\ pc' = "done"
    /\ UNCHANGED <<fn, args, cache, clock, hist>>

NextContrib == CallContributorStats

SpecContrib == InitContrib /\ [][NextContrib]_vars

ContribDone == pc = "done" /\ fn = "compute_contributor_stats"

\* The creation times of login's PRs in a list, and the number of those PRs
CreatedBy(prs, login) == {prs[i].created_at : i \in {j \in 1..Len(prs) : prs[j].author = login}}
CountBy(prs, login) == Cardinality({i \in 1..Len(prs) : prs[i].author = login})

AllCreatedBy(login) ==
    CreatedBy(args.merged, login) \cup CreatedBy(args.closed, login)
        \cup CreatedBy(args.open_prs, login)

ContribAuthors ==
    {args.merged[i].author : i \in 1..Len(args.merged)}
        \cup {args.closed[i].author : i \in 1..Len(args.closed)}
        \cup {args.open_prs[i].author : i \in 1..Len(args.open_prs)}

\* rate is, in tenths, the merged share of merged plus closed in percent
\* rounded to one decimal: no further than half a tenth from it
IsRoundedShare(rate, merged_count, closed_count) ==
    LET total == merged_count + closed_count
        diff == rate.n * total - 1000 * merged_count
    IN  /\ rate.d = 10
        /\ 2 * (IF diff >= 0 THEN diff ELSE -diff) <= total

\* C25: compute_contributor_stats returns one entry per distinct author of
\* the merged, closed and open lists; the entry's three counts are the
\* numbers of that author's PRs in the three lists, first_contribution is
\* the minimum created_at over all of the author's PRs, whatever the order
\* of the lists, and merge_rate is merged / (merged + closed) * 100 rounded
\* to one decimal, and 0 for an author with neither merged nor closed PRs.
C25_ContributorEntries ==
    ContribDone =>
        /\ {result[i].login : i \in 1..Len(result)} = ContribAuthors
        /\ Len(result) = Cardinality(ContribAuthors)
        /\ \A i \in 1..Len(result) :
               LET s == result[i]
               IN  /\ s.merged_count = CountBy(args.merged, s.login)
                   /\ s.closed_count = CountBy(args.closed, s.login)
                   /\ s.open_count = CountBy(args.open_prs, s.login)
                   /\ ~IsNone(s.first_contribution)
                   /\ Val(s.first_contribution) \in AllCreatedBy(s.login)
                   /\ \A t \in AllCreatedBy(s.login) : Val(s.first_contribution) <= t
                   /\ IF s.merged_count + s.closed_count = 0
                      THEN s.merge_rate = Rat(0, 10)
                      ELSE IsRoundedShare(s.merge_rate, s.merged_count, s.closed_count)

\* Two authors; one has two merged and one closed PR (66.7 percent), created
\* later in the merged list than in the open list
C25_Witness ==
    /\ ContribDone
    /\ Len(result) = 2
    /\ \E i \in 1..2 :
           /\ result[i].merged_count = 2
           /\ result[i].closed_count = 1
           /\ result[i].open_count = 1
           /\ result[i].merge_rate = Rat(667, 10)
           /\ result[i].first_contribution = Some(0)
           /\ \A t \in CreatedBy(args.merged, result[i].login) : t = 1

----------------------------------------------------------------------------
(* _pr_row (frames.py 34-53) and PRSummary.age_hours (models.py 42-47);
   datetimes are minutes, hours are exact rationals *)

\* end = self.merged_at or self.closed_at or datetime.now(timezone.utc);
\* (end - created).total_seconds() / 3600
age_hours(pr, now) ==
    LET end == IF ~IsNone(pr.merged_at) THEN Val(pr.merged_at)
               ELSE IF ~IsNone(pr.closed_at) THEN Val(pr.closed_at)
               ELSE now
    IN  Rat(total_seconds(end, pr.created_at), 3600)

\* The truth value of an optional number: None and 0 are false
Truthy(x) == ~IsNone(x) /\ ~RatEq(Val(x), RatInt(0))

\* round(x, 1)
round1(x) == Rat(round_tenths(x), 10)

_pr_row(pr, now) ==
    [number |-> pr.number,
     title |-> pr.title,
     author |-> pr.author,
     state |-> pr.state,
     category |-> pr.category,
     size |-> size(pr),
     additions |-> pr.additions,
     deletions |-> pr.deletions,
     changed_files |-> pr.changed_files,
     review_count |-> pr.review_count,
     created_at |-> pr.created_at,
     merged_at |-> pr.merged_at,
     closed_at |-> pr.closed_at,
     merged_by |-> pr.merged_by,
     age_hours |-> round1(age_hours(pr, now)),
     time_to_merge_hours |->
         IF Truthy(pr.time_to_merge_hours)
         THEN Some(round1(Val(pr.time_to_merge_hours)))
         ELSE None]

----------------------------------------------------------------------------
(* Input sets of the tabular-row specification *)

RowCreated == {0, 30}
RowEnds == {0, 30, 40, 90}
RowNows == {90, 120}

\* A summary as parse_pr_node builds it: merged PRs carry merged_at, closed_at,
\* merged_by and the time to merge, closed ones closed_at, open ones neither;
\* no PR ends before it was created
RowSummary(number, state, created, end, additions) ==
    [number |-> number, title |-> "Fix login", author |-> "alice",
     state |-> state, category |-> "fix",
     additions |-> additions, deletions |-> 0, changed_files |-> 1,
     review_count |-> 0,
     created_at |-> created,
     merged_at |-> IF state = "MERGED" THEN Some(end) ELSE None,
     closed_at |-> IF state = "OPEN" THEN None ELSE Some(end),
     merged_by |-> IF state = "MERGED" THEN Some("bob") ELSE None,
     time_to_merge_hours |->
         IF state = "MERGED"
         THEN Some(Rat(total_seconds(end, created), 3600))
         ELSE None]

RowSummaries ==
    {RowSummary(number, state, created, end, additions) :
        number \in 1..2, state \in {"MERGED", "CLOSED", "OPEN"},
        created \in RowCreated, end \in RowEnds, additions \in {10, 60}}

InitRow ==
    /\ pc = "call"
    /\ fn = "_pr_row"
    /\ \E pr \in RowSummaries, now \in RowNows :
           /\ pr.state # "OPEN" => Val(pr.closed_at) >= pr.created_at
           /\ args = [pr |-> pr, now |-> now]
    /\ result = <<>>
    /\ FreshCache

CallPrRow ==
    /\ pc = "call"
    /\ fn = "_pr_row"
    /\ result' = _pr_row(args.pr, args.now)
    /\ pc' = "done"
    /\ UNCHANGED <<fn, args, cache, clock, hist>>

NextRow == CallPrRow

SpecRow == InitRow /\ [][NextRow]_vars

RowDone == pc = "done" /\ fn = "_pr_row"

\* C27: in the row _pr_row produces the time_to_merge_hours column is null
\* if and only if the summary's time_to_merge_hours is undefined; a PR
\* merged at its creation instant, with time_to_merge_hours 0, exports a
\* non-null value.
C27_MergeTimeNullIffUndefined ==
    RowDone =>
        (IsNone(result.time_to_merge_hours)
             <=> IsNone(args.pr.time_to_merge_hours))

\* The column is null for every summary without a time to merge, and every
\* other column is the summary's field
C27_NullWhenUndefined ==
    RowDone =>
        /\ IsNone(args.pr.time_to_merge_hours) => IsNone(result.time_to_merge_hours)
        /\ \A f \in {"number", "title", "author", "state", "category", "additions",
                     "deletions", "changed_files", "review_count", "created_at",
                     "merged_at", "closed_at", "merged_by"} :
               result[f] = args.pr[f]

\* A PR merged at its creation instant has been exported
C27_MergedAtCreation ==
    /\ RowDone
    /\ args.pr.time_to_merge_hours = Some(Rat(0, 3600))
    /\ IsNone(result.time_to_merge_hours)

----------------------------------------------------------------------------
(* scorecard_frame (frames.py 227-348). A formatted string is the sequence
   of its pieces: literal texts, and numbers as the format prints them *)

\* f"{x:.0f}": x to the nearest integer, a tie going to the even one
fmt0(x) ==
    LET two == (x.n * 2) \div x.d
        exact == (x.n * 2) % x.d = 0
        down == two \div 2
    IN  IF two % 2 = 0 THEN down
        ELSE IF ~exact THEN down + 1
        ELSE IF down % 2 = 0 THEN down ELSE down + 1

\* f"{x:.1f}"
fmt1(x) == round1(x)

_fmt_hours(h) ==
    IF IsNone(h) THEN <<"null">>
    ELSE IF RatLt(Val(h), RatInt(1)) THEN <<fmt0(RatMulInt(Val(h), 60)), "m">>
    ELSE IF RatLt(Val(h), RatInt(24)) THEN <<fmt1(Val(h)), "h">>
    ELSE <<fmt1(Rat(Val(h).n, Val(h).d * 24)), "d">>

\* add(signal, value, read)
Row(signal, value, read) == [signal |-> signal, value |-> value, read |-> read]

\* if review: the review_coverage and reviewer_spread rows
ReviewSignals(review) ==
    IF IsNone(review) THEN <<>>
    ELSE LET r == Val(review)
             cov == r.review_coverage
             total == r.total_reviewed_prs + r.total_unreviewed_merged
             read == IF RatLt(cov, RatInt(30))
                     THEN <<r.total_unreviewed_merged, "/", total,
                            " merges go in blind">>
                     ELSE IF RatLt(cov, RatInt(70))
                     THEN <<"partial coverage - room to improve">>
                     ELSE <<"most PRs reviewed before merge">>
             top == r.reviewer_stats[1]
             n == r.reviewer_concentration
         IN  <<Row("review_coverage", <<fmt0(cov), "%">>, read)>>
             \o IF r.reviewer_stats = <<>> THEN <<>>
                ELSE <<Row("reviewer_spread", <<n, " (", top.login, ")">>,
                           IF n <= 1
                           THEN <<"sole gatekeeper - ">>
                                    \o _fmt_hours(top.avg_turnaround_hours)
                                    \o <<" avg turnaround">>
                           ELSE <<n, " reviewers cover 50%+ of reviews">>)>>

\* sum(c for _, c in health.top_committers)
RECURSIVE SumCommits(_)
SumCommits(top_committers) ==
    IF top_committers = <<>> THEN 0
    ELSE Head(top_committers)[2] + SumCommits(Tail(top_committers))

\* if health: the five health rows
HealthSignals(health) ==
    IF IsNone(health) THEN <<>>
    ELSE LET h == Val(health)
             total_c == SumCommits(h.top_committers)
             top_n == h.top_committers[1][2]
             pct == IF total_c # 0 THEN fmt0(Rat(top_n * 100, total_c)) ELSE 0
         IN  <<Row("active_contributors", <<h.active_contributors_30d>>,
                   IF h.active_contributors_30d <= 1
                   THEN <<"only 1 person active in last 30d">>
                   ELSE <<h.active_contributors_30d, " people active in last 30d">>),
               Row("bus_factor", <<h.bus_factor>>,
                   IF h.bus_factor = 0 THEN <<"no merges in lookback - can't compute">>
                   ELSE IF h.bus_factor = 1 THEN <<"single point of failure">>
                   ELSE <<h.bus_factor, " people cover 50%+ of merges">>),
               Row("commit_velocity", <<fmt1(h.commits_per_week), "/wk">>,
                   IF h.top_committers # <<>>
                   THEN <<h.top_committers[1][1], " dominates (", top_n, "/",
                          total_c, ", ", pct, "%)">>
                   ELSE <<"no commit data">>),
               IF ~IsNone(h.release_cadence_days)
               THEN Row("release_cadence", <<fmt0(Val(h.release_cadence_days)), "d">>,
                        IF ~IsNone(h.last_release)
                        THEN <<"last: ", Val(h.last_release)>>
                        ELSE <<"has releases">>)
               ELSE Row("release_cadence", <<"-">>,
                        IF IsNone(h.last_release) THEN <<"no releases ever">>
                        ELSE <<"only 1 release: ", Val(h.last_release)>>),
               IF ~IsNone(h.issue_response_time_hours)
               THEN Row("issue_response", _fmt_hours(h.issue_response_time_hours),
                        IF RatLt(Val(h.issue_response_time_hours), RatInt(24))
                        THEN <<"fast - under 24h">>
                        ELSE IF RatLt(Val(h.issue_response_time_hours), RatInt(168))
                        THEN <<"slow - over a day">>
                        ELSE <<"very slow - over a week">>)
               ELSE Row("issue_response", <<"-">>,
                        <<"no issue responses to measure">>)>>

\* if triage: the merge_rate and top_merger rows
TriageSignals(triage) ==
    IF IsNone(triage) THEN <<>>
    ELSE LET t == Val(triage)
             top == t.maintainer_stats[1]
         IN  <<Row("merge_rate", <<fmt1(t.merge_rate), "%">>,
                   <<"median ">> \o _fmt_hours(t.median_merge_hours)
                       \o <<" - p75 ">> \o _fmt_hours(t.p75_merge_hours))>>
             \o IF t.maintainer_stats = <<>> THEN <<>>
                ELSE <<Row("top_merger", <<top.login, " (", top.merge_count, ")">>,
                           IF Len(t.maintainer_stats) = 1
                           THEN <<top.login, " is the sole merger">>
                           ELSE <<top.login, " leads - ", top.merge_count,
                                  " merges">>)>>

\* if contribs: the first_timers and top_contributor rows
ContributorSignals(contribs) ==
    IF IsNone(contribs) THEN <<>>
    ELSE LET c == Val(contribs)
             top == c.top_contributors[1]
         IN  <<Row("first_timers", <<c.first_timers>>,
                   IF c.first_timers = 0
                   THEN <<"zero new contributors in window">>
                   ELSE <<fmt0(c.first_timer_merge_rate), "% merge rate - ",
                          fmt0(c.retention_rate), "% retention">>)>>
             \o IF c.top_contributors = <<>> THEN <<>>
                ELSE <<Row("top_contributor", <<top.login, " (", top.merged_count, ")">>,
                           <<fmt0(top.merge_rate), "% merge rate">>)>>

\* max(pr.age_hours for pr in prs) of a non-empty list
OldestAge(prs, now) ==
    CHOOSE a \in {age_hours(prs[i], now) : i \in 1..Len(prs)} :
        \A i \in 1..Len(prs) : RatLe(age_hours(prs[i], now), a)

\* if review and review.unreviewed_open_prs: the unreviewed_prs row
UnreviewedSignals(review, now) ==
    IF IsNone(review) \/ Val(review).unreviewed_open_prs = <<>> THEN <<>>
    ELSE <<Row("unreviewed_prs", <<Len(Val(review).unreviewed_open_prs)>>,
               <<Len(Val(review).stale_review_prs), " stale - oldest waiting ">>
                   \o _fmt_hours(Some(OldestAge(Val(review).unreviewed_open_prs, now))))>>

\* A faulty scorecard_frame: the unreviewed_prs row is added only with the
\* health section
scorecard_frame_unreviewed_with_health(triage, contribs, review, health, now) ==
    ReviewSignals(review) \o HealthSignals(health) \o TriageSignals(triage)
        \o ContributorSignals(contribs)
        \o IF IsNone(health) THEN <<>> ELSE UnreviewedSignals(review, now)

\* The rows of the table returned, in order; with no row the table has the
\* three columns and no row
scorecard_frame(triage, contribs, review, health, now) ==
    ReviewSignals(review) \o HealthSignals(health) \o TriageSignals(triage)
        \o ContributorSignals(contribs) \o UnreviewedSignals(review, now)

----------------------------------------------------------------------------
(* Input sets of the scorecard specification *)

\* An open PR without reviews, created at the minute
OpenPR(created) == [created_at |-> created, merged_at |-> None, closed_at |-> None]

ScoreReviews ==
    {[review_coverage |-> Rat(25, 1), total_reviewed_prs |-> 1,
      total_unreviewed_merged |-> 3, reviewer_stats |-> <<>>,
      reviewer_concentration |-> 0, unreviewed_open_prs |-> <<>>,
      stale_review_prs |-> <<>>],
     [review_coverage |-> Rat(50, 1), total_reviewed_prs |-> 2,
      total_unreviewed_merged |-> 2,
      reviewer_stats |-> <<[login |-> "bob", avg_turnaround_hours |-> Some(Rat(1, 2))]>>,
      reviewer_concentration |-> 1,
      unreviewed_open_prs |-> <<OpenPR(0), OpenPR(60)>>,
      stale_review_prs |-> <<OpenPR(0)>>],
     [review_coverage |-> Rat(100, 1), total_reviewed_prs |-> 4,
      total_unreviewed_merged |-> 0,
      reviewer_stats |-> <<[login |-> "bob", avg_turnaround_hours |-> None],
                           [login |-> "carol", avg_turnaround_hours |-> Some(Rat(30, 1))]>>,
      reviewer_concentration |-> 2,
      unreviewed_open_prs |-> <<OpenPR(60)>>, stale_review_prs |-> <<>>]}

ScoreHealths ==
    {[active_contributors_30d |-> 0, bus_factor |-> 0, top_committers |-> <<>>,
      commits_per_week |-> Rat(0, 1), release_cadence_days |-> None,
      last_release |-> None, issue_response_time_hours |-> None],
     [active_contributors_30d |-> 1, bus_factor |-> 1,
      top_committers |-> <<<<"alice", 3>>>>,
      commits_per_week |-> Rat(3, 4), release_cadence_days |-> None,
      last_release |-> Some("v1.0"), issue_response_time_hours |-> Some(Rat(5, 1))],
     [active_contributors_30d |-> 3, bus_factor |-> 2,
      top_committers |-> <<<<"alice", 2>>, <<"bob", 1>>>>,
      commits_per_week |-> Rat(21, 2), release_cadence_days |-> Some(Rat(29, 2)),
      last_release |-> Some("v2.0"), issue_response_time_hours |-> Some(Rat(200, 1))]}

ScoreTriages ==
    {[merge_rate |-> Rat(0, 1), median_merge_hours |-> None, p75_merge_hours |-> None,
      maintainer_stats |-> <<>>],
     [merge_rate |-> Rat(200, 3), median_merge_hours |-> Some(Rat(1, 2)),
      p75_merge_hours |-> Some(Rat(5, 1)),
      maintainer_stats |-> <<[login |-> "bob", merge_count |-> 2]>>],
     [merge_rate |-> Rat(100, 1), median_merge_hours |-> Some(Rat(30, 1)),
      p75_merge_hours |-> Some(Rat(50, 1)),
      maintainer_stats |-> <<[login |-> "bob", merge_count |-> 2],
                             [login |-> "carol", merge_count |-> 1]>>]}

ScoreContribs ==
    {[first_timers |-> 0, first_timer_merge_rate |-> Rat(0, 1),
      retention_rate |-> Rat(0, 1), top_contributors |-> <<>>],
     [first_timers |-> 2, first_timer_merge_rate |-> Rat(50, 1),
      retention_rate |-> Rat(100, 3),
      top_contributors |-> <<[login |-> "alice", merged_count |-> 2,
                              merge_rate |-> Rat(667, 10)]>>]}

ReportNames == {"triage", "contribs", "review", "health"}

\* The four reports, the names of those passed as None, and the present
\* minute
InitScore ==
    /\ pc = "call"
    /\ fn = "scorecard_frame"
    /\ args \in [triage : ScoreTriages, contribs : ScoreContribs,
                 review : ScoreReviews, health : ScoreHealths,
                 absent : SUBSET ReportNames, now : {90, 3000}]
    /\ result = <<>>
    /\ FreshCache

\* The argument of that name: None for an absent report
Passed(name) == IF name \in args.absent THEN None ELSE Some(args[name])

CallScorecardFrame ==
    /\ pc = "call"
    /\ fn = "scorecard_frame"
    /\ result' = scorecard_frame(Passed("triage"), Passed("contribs"),
                                 Passed("review"), Passed("health"), args.now)
    /\ pc' = "done"
    /\ UNCHANGED <<fn, args, cache, clock, hist>>

NextScore == CallScorecardFrame

SpecScore == InitScore /\ [][NextScore]_vars

ScoreDone == pc = "done" /\ fn = "scorecard_frame"

\* The report a signal row is derived from
SignalReport(signal) ==
    IF signal \in {"review_coverage", "reviewer_spread", "unreviewed_prs"} THEN "review"
    ELSE IF signal \in {"merge_rate", "top_merger"} THEN "triage"
    ELSE IF signal \in {"first_timers", "top_contributor"} THEN "contribs"
    ELSE "health"

IsOfPresentReport(row) == SignalReport(row.signal) \notin args.absent

\* The rows of the call with all four reports present
AllPresentRows ==
    scorecard_frame(Some(args.triage), Some(args.contribs), Some(args.review),
                    Some(args.health), args.now)

\* C26: for every subset of the four reports passed as None, scorecard_frame
\* returns a table: no row of it is derived from an absent report, and the
\* rows derived from the present reports are the rows the call with all four
\* reports present derives from them, in the same relative order.
C26_AbsentReportsOmitted ==
    ScoreDone =>
        /\ \A i \in 1..Len(result) : IsOfPresentReport(result[i])
        /\ result = SelectSeq(AllPresentRows, IsOfPresentReport)

\* Health alone is absent and the review report has unreviewed open PRs: the
\* rows of review surround those of triage and contributors
C26_Witness ==
    /\ ScoreDone
    /\ args.absent = {"health"}
    /\ Len(result) = 7
    /\ result[1].signal = "review_coverage"
    /\ result[3].signal = "merge_rate"
    /\ result[7].signal = "unreviewed_prs"

----------------------------------------------------------------------------
(* paginated_query (github.py 57-106), one request at a time, against a
   remote that answers each request as it likes.  While the loop runs result
   holds all_nodes and cursor, and hist the requests issued with their
   responses; the node <<k, i>> is the i-th node of the k-th response *)

\* The largest limit, and the most nodes in one response
MaxPageLimit == 3
MaxPageNodes == 2

PageSizes == {1, 2}

\* A faulty remaining_of: every request asks for a full page
remaining_full_page(limit, page_size, all_nodes) == page_size

\* remaining = min(page_size, limit - len(all_nodes))
remaining_of(limit, page_size, all_nodes) ==
    Min2(page_size, limit - Len(all_nodes))

\* The connection of the k-th response: count nodes, whether there is a next
\* page, and the end cursor
Connection(k, count, hasNextPage, endCursor) ==
    [kind |-> "ok",
     data |-> [nodes |-> [i \in 1..count |-> <<k, i>>],
               hasNextPage |-> hasNextPage, endCursor |-> endCursor]]

\* The responses to the k-th request: any failure of gh, or a connection
\* that holds at least one node, or reports no next page, or carries no end
\* cursor
Responses(k) ==
    {[kind |-> f] : f \in FailureKinds}
    \cup {Connection(k, count, hasNextPage, endCursor) :
            count \in 1..MaxPageNodes, hasNextPage \in BOOLEAN,
            endCursor \in {None, Some(k)}}
    \cup {Connection(k, 0, FALSE, endCursor) : endCursor \in {None, Some(k)}}
    \cup {Connection(k, 0, TRUE, None)}

InitPage ==
    /\ pc = "loop"
    /\ fn = "paginated_query"
    /\ args \in [limit : 0..MaxPageLimit, page_size : PageSizes]
    /\ result = [all_nodes |-> <<>>, cursor |-> None]
    /\ FreshCache

\* One turn of `while len(all_nodes) < limit`: the request, and what the
\* response makes of all_nodes and cursor; a failed request raises, and the
\* two breaks return all_nodes[:limit]
PageRequest ==
    /\ pc = "loop"
    /\ fn = "paginated_query"
    /\ Len(result.all_nodes) < args.limit
    /\ \E response \in Responses(Len(hist) + 1) :
        LET remaining == remaining_of(args.limit, args.page_size, result.all_nodes)
            data == graphql(response)
            extended == result.all_nodes \o data.value.nodes
        IN  /\ hist' = Append(hist, [first |-> remaining, cursor |-> result.cursor,
                                     response |-> response])
            /\ IF ~data.ok
               THEN /\ pc' = "raised"
                    /\ result' = [ok |-> FALSE, error |-> data.error,
                                  requests |-> Len(hist')]
               ELSE IF ~data.value.hasNextPage \/ IsNone(data.value.endCursor)
               THEN /\ pc' = "done"
                    /\ result' = [ok |-> TRUE, value |-> Prefix(extended, args.limit),
                                  requests |-> Len(hist')]
               ELSE /\ pc' = "loop"
                    /\ result' = [all_nodes |-> extended,
                                  cursor |-> data.value.endCursor]
    /\ UNCHANGED <<fn, args, cache, clock>>

\* The loop condition fails: return all_nodes[:limit]
PageReturn ==
    /\ pc = "loop"
    /\ fn = "paginated_query"
    /\ ~(Len(result.all_nodes) < args.limit)
    /\ pc' = "done"
    /\ result' = [ok |-> TRUE, value |-> Prefix(result.all_nodes, args.limit),
                  requests |-> Len(hist)]
    /\ UNCHANGED <<fn, args, cache, clock, hist>>

NextPage == PageRequest \/ PageReturn

SpecPage == InitPage /\ [][NextPage]_vars

\* The call runs on its own thread of control: a turn of the loop that can
\* be taken is taken
SpecPageLive == SpecPage /\ WF_vars(NextPage)

PageEnded == fn = "paginated_query" /\ pc \in {"done", "raised"}

\* The nodes of the responses to the requests 1..k, in response order
RECURSIVE NodesUpTo(_)
NodesUpTo(k) ==
    IF k = 0 THEN <<>>
    ELSE NodesUpTo(k - 1)
             \o (IF hist[k].response.kind = "ok" THEN hist[k].response.data.nodes
                 ELSE <<>>)

\* The requests issued so far are those of the loop
PageRequestsRight ==
    fn = "paginated_query" =>
        /\ Len(hist) <= args.limit
        /\ \A k \in 1..Len(hist) :
               /\ hist[k].first
                      = Min2(args.page_size, args.limit - Len(NodesUpTo(k - 1)))
               /\ hist[k].first >= 1
               /\ IF k = 1 THEN IsNone(hist[k].cursor)
                  ELSE /\ ~IsNone(hist[k].cursor)
                       /\ hist[k].cursor = hist[k - 1].response.data.endCursor
        /\ (pc = "done" =>
               result.value = Prefix(NodesUpTo(Len(hist)), args.limit))

\* C28: against a remote whose every response contains at least one node,
\* or reports hasNextPage false, or carries no endCursor, paginated_query
\* terminates: it issues at most `limit` requests, each asking for
\* min(page_size, limit - nodes accumulated so far) items, the first without
\* a cursor and each later one with the endCursor of the immediately
\* preceding response, and returns the nodes in response order.
C28_PaginationTerminates == []PageRequestsRight /\ <>PageEnded

\* A call with limit 3 has returned after three requests of one node each,
\* the last one asking for the one node still missing
C28_Witness ==
    /\ fn = "paginated_query"
    /\ pc = "done"
    /\ args.limit = 3
    /\ Len(hist) = 3
    /\ hist[3].first = 1
    /\ hist[3].cursor = Some(2)
    /\ result.value = << <<1, 1>>, <<2, 1>>, <<3, 1>> >>

----------------------------------------------------------------------------
(* Bounds and input sets of the no-cache specification: invocations of
   _fetch_pr_data, _fetch_review_nodes and _fetch_commits that share one
   cache, with and without --no-cache and --offline *)

\* The cache.put calls of a behaviour
MaxNoCachePuts == 2

\* gh answers, or exits with a non-zero status at the first request
NoCacheRemotes ==
    {[nodes |-> RepoNodes, fail_at |-> 0, failure |-> "none"],
     [nodes |-> RepoNodes, fail_at |-> 1, failure |-> "exit_nonzero"]}

NoCacheWorlds ==
    {Healthy, [nodes |-> RepoNodes, fail |-> "COMMIT_HISTORY", failure |-> "exit_nonzero"]}

\* What an invocation leaves in the variables
Refetched(name, arguments, outcome) ==
    \E out \in {outcome} :
    /\ Len(hist) + Len(out.puts) <= MaxNoCachePuts
    /\ fn' = name
    /\ args' = arguments
    /\ result' = out
    /\ cache' = out.store
    /\ hist' = hist \o out.puts
    /\ pc' = "done"
    /\ UNCHANGED clock

NoCachePRData ==
    /\ pc = "idle"
    /\ \E ctx \in FetchContexts, remote \in NoCacheRemotes :
           Refetched("_fetch_pr_data",
                     [ctx |-> ctx, cache_key |-> "merged_prs", remote |-> remote],
                     _fetch_pr_data(ctx, "MERGED", "merged_prs", cache, clock, remote))

NoCacheReviewNodes ==
    /\ pc = "idle"
    /\ \E ctx \in FetchContexts, remote \in NoCacheRemotes :
           Refetched("_fetch_review_nodes",
                     [ctx |-> ctx, cache_key |-> "merged_prs_reviews", remote |-> remote],
                     _fetch_review_nodes(ctx, "merged_prs_reviews", cache, clock, remote))

NoCacheCommits ==
    /\ pc = "idle"
    /\ \E ctx \in FetchContexts, world \in NoCacheWorlds :
           Refetched("_fetch_commits",
                     [ctx |-> ctx, cache_key |-> "commits",
                      remote |-> RemoteFor(world, "COMMIT_HISTORY")],
                     _fetch_commits(ctx, cache, clock, world))

NextNoCache ==
    \/ NoCachePRData \/ NoCacheReviewNodes \/ NoCacheCommits
    \/ FetchWait \/ FetchExit

SpecNoCache == InitFetch /\ [][NextNoCache]_vars

\* The raw nodes a helper's query yields: the first ctx.limit nodes of the
\* connection, and every commit of the history
FreshNodes(name, arguments) ==
    IF name = "_fetch_commits" THEN arguments.remote.nodes
    ELSE Prefix(arguments.remote.nodes, arguments.ctx.limit)

\* What the helper returns for the raw nodes: the summaries of the PRs with
\* those numbers, or the nodes themselves
ReturnsNodes(name, value, nodes) ==
    IF name = "_fetch_pr_data"
    THEN /\ Len(value) = Len(nodes)
         /\ \A i \in 1..Len(nodes) : value[i].number = nodes[i]
    ELSE value = nodes

\* C29: with ctx.no_cache set a fetch helper never reads the cache: online it
\* queries the remote on every call and, the query answered, overwrites the
\* cache entry of its key with the fresh raw nodes, which it returns; with
\* ctx.offline set as well it returns an empty result, issues no request and
\* leaves the cache as it is, even if the cache holds an entry for the key.
C29_NoCacheNeverReads ==
    [][(pc' = "done" /\ args'.ctx.no_cache)
           => IF args'.ctx.offline
              THEN /\ result'.ok
                   /\ result'.value = <<>>
                   /\ result'.requests = 0
                   /\ result'.puts = <<>>
                   /\ cache' = cache
              ELSE /\ result'.requests >= 1
                   /\ result'.ok <=> args'.remote.fail_at = 0
                   /\ result'.ok =>
                          /\ ReturnsNodes(fn', result'.value, FreshNodes(fn', args'))
                          /\ result'.puts
                                 = <<PutCall(clock, args'.ctx.repo, args'.cache_key,
                                             FreshNodes(fn', args'))>>
                          /\ cache' = put(cache, clock, args'.ctx.repo, args'.cache_key,
                                          json_dumps(FreshNodes(fn', args')))
                          /\ get_offline(cache', args'.ctx.repo, args'.cache_key)
                                 = Some(FreshNodes(fn', args'))]_vars

\* A call under --no-cache has fetched one node and overwritten, in the same
\* second, the two nodes an earlier call had cached for the key
C29_Witness ==
    /\ pc = "done"
    /\ args.ctx.no_cache /\ ~args.ctx.offline
    /\ Len(hist) = 2
    /\ hist[1].key = args.cache_key /\ hist[2].key = args.cache_key
    /\ hist[1].at = hist[2].at
    /\ Len(hist[1].data) = 2 /\ Len(hist[2].data) = 1
    /\ get_offline(cache, args.ctx.repo, args.cache_key) = Some(hist[2].data)

\* A call under --no-cache and --offline has returned nothing although the
\* cache holds an entry for its key
C29_OfflineIgnoresEntry ==
    /\ pc = "done"
    /\ args.ctx.no_cache /\ args.ctx.offline
    /\ ~IsNone(get_offline(cache, args.ctx.repo, args.cache_key))
    /\ result.value = <<>>

----------------------------------------------------------------------------
(* What a cache operation leaves alone *)

\* The rows of the two tables other than those in `touched` are the same
SameExcept(before, after, touched) ==
    /\ DOMAIN after \ touched = DOMAIN before \ touched
    /\ \A row \in DOMAIN before \ touched : after[row] = before[row]

\* C30: cache operations touch only what they name: cache.get and
\* cache.get_offline never modify the store (an entry that has expired for
\* get is not deleted, and get_offline still returns it), cache.put(repo,
\* key, v) changes only the entry (repo, key), and cache.clear(repo) with a
\* non-empty repo removes exactly the entries of that repo and leaves every
\* other repo's entries unchanged.
C30_CacheFrame ==
    [][/\ fn' \in {"cache.get", "cache.get_offline"} /\ hist' = hist
           => cache' = cache
       /\ (fn' = "cache.get" /\ hist' = hist /\ result' = None
               /\ <<args'.repo, args'.key>> \in DOMAIN cache)
           => /\ <<args'.repo, args'.key>> \in DOMAIN cache'
              /\ get_offline(cache', args'.repo, args'.key)
                     = Some(json_loads(cache[<<args'.repo, args'.key>>].data))
       /\ (fn' = "cache.put" /\ hist' # hist)
           => /\ SameExcept(cache, cache', {<<args'.repo, args'.key>>})
              /\ <<args'.repo, args'.key>> \in DOMAIN cache'
       /\ (fn' = "cache.clear" /\ hist' # hist /\ ~IsNone(args'.repo))
           => /\ DOMAIN cache' = {row \in DOMAIN cache : row[1] # Val(args'.repo)}
              /\ \A row \in DOMAIN cache' : cache'[row] = cache[row]]_vars

\* cache.clear("o/a") has left the entry of the other repo in the table
C30_Witness ==
    /\ pc = "done"
    /\ fn = "cache.clear"
    /\ args.repo = Some("o/a")
    /\ Len(hist) = 2
    /\ hist[1].op = "put" /\ hist[1].repo = "o/b"
    /\ DOMAIN cache = {<<"o/b", "merged_prs">>}

\* cache.get has returned None for an entry older than the TTL, and the entry
\* is in the table still
C30_ExpiredEntryKept ==
    /\ pc = "done"
    /\ fn = "cache.get"
    /\ result = None
    /\ <<args.repo, args.key>> \in DOMAIN cache
    /\ args.at - cache[<<args.repo, args.key>>].fetched_at > args.ttl

=============================================================================
